---- MODULE Spec2Model ----
(***************************************************************************)
(* A model of the financial-clarity repository: the insights generator     *)
(* (lib/openai.ts), the QuickBooks and Xero report extractors              *)
(* (lib/quickbooks.ts, lib/xero.ts) and the insight-generation route       *)
(* (app/api/insights/generate/route.ts).                                   *)
(*                                                                         *)
(* JavaScript numbers are modelled as exact rationals plus NaN.  Every     *)
(* division of the source is guarded by a "> 0" test or divides by the     *)
(* literal 12, so no infinity is produced from finite operands.            *)
(***************************************************************************)
EXTENDS Integers, Sequences, FiniteSets, TLC

VARIABLES
    metrics,      \* the FinancialMetrics object handed to the generator
    snapshot,     \* the contents of that object when it was built
    response,     \* what the narrative call of the last generator call did
    insight,      \* the outcome of the last generator call
    firstHiring,  \* the first generateHiringImpact result on this object
    prompt,       \* the prompt template of the last generator call and its arguments
    callCount,    \* the number of generator calls made on the object
    report,       \* the raw report handed to an extractor
    metricName,   \* the label the extractor looks for
    extracted,    \* the outcome of the last extractor call
    bankAccounts, \* the Xero bank-account listing handed to totalCash
    pc,           \* where the POST handler of the insights route stands
    req,          \* the request it serves
    books,        \* what the accounting provider holds for the user
    fetches,      \* the report fetches of getFinancialData
    narr,         \* the generator calls of the request, in the order made
    completed,    \* the indices of narr in the order the calls settled
    results,      \* the insights the handler holds after its await
    inserts,      \* the inserts into the insights table, in the order made
    http,         \* the response of the handler
    today,        \* the instant of the request and the server's time zone
    ranges,       \* the dates getFinancialData sends with its fetches
    browser,      \* the signed-in user and the OAuth state cookies of the browser
    connectionRows, \* the rows of the connections table
    callback,     \* the OAuth callback request being served, or the last one served
    issued,       \* the number of OAuth state values issued so far
    served        \* the number of OAuth callback requests received so far

vars == <<metrics, snapshot, response, insight, firstHiring, prompt, callCount, report, metricName, extracted,
          bankAccounts, pc, req, books, fetches, narr, completed, results, inserts, http,
          today, ranges, browser, connectionRows, callback, issued, served>>

genVars == <<metrics, snapshot, response, insight, firstHiring, prompt, callCount>>
extractVars == <<report, metricName, extracted, bankAccounts>>
routeVars == <<pc, req, books, fetches, narr, completed, results, inserts, http>>
dateVars == <<today, ranges>>
oauthVars == <<browser, connectionRows, callback, issued, served>>

----------------------------------------------------------------------------
(* Bounds of the model *)

MaxMoney == 2
MaxCash == 3
MaxSalary == 25
MaxNodes == 3
MaxSections == 2
MaxAccounts == 2
MaxCalls == 2

(* Program constants *)

SentinelRunway == 999
MonthsPerYear == 12
Percent == 100

----------------------------------------------------------------------------
(* JavaScript numbers: finite rationals n/d (d > 0, lowest terms) and NaN *)

Abs(x) == IF x < 0 THEN -x ELSE x

RECURSIVE GCD(_, _)
GCD(a, b) == IF b = 0 THEN a ELSE GCD(b, a % b)

NaN == [nan |-> TRUE, n |-> 0, d |-> 1]

Norm(n, d) ==
    LET g == GCD(Abs(n), d)
    IN  [nan |-> FALSE, n |-> n \div g, d |-> d \div g]

Num(i) == [nan |-> FALSE, n |-> i, d |-> 1]

NumAdd(a, b) ==
    IF a.nan \/ b.nan THEN NaN ELSE Norm(a.n * b.d + b.n * a.d, a.d * b.d)

NumSub(a, b) ==
    IF a.nan \/ b.nan THEN NaN ELSE Norm(a.n * b.d - b.n * a.d, a.d * b.d)

NumMul(a, b) ==
    IF a.nan \/ b.nan THEN NaN ELSE Norm(a.n * b.n, a.d * b.d)

\* a / b.  0/0 is NaN; x/0 for x # 0 is an infinity in IEEE arithmetic, which
\* no division of the source can reach (each is guarded by "> 0").
NumDiv(a, b) ==
    IF a.nan \/ b.nan \/ b.n = 0 THEN NaN
    ELSE IF b.n > 0 THEN Norm(a.n * b.d, a.d * b.n)
    ELSE Norm(-(a.n * b.d), a.d * (-b.n))

\* a > 0: a comparison with NaN is false
NumGT0(a) == ~a.nan /\ a.n > 0

\* Math.floor
NumFloor(a) == IF a.nan THEN NaN ELSE Num(a.n \div a.d)

----------------------------------------------------------------------------
(* lib/openai.ts: the derivations of InsightsGenerator *)

NetBurn(m) == NumSub(m.monthlyExpenses, m.monthlyRevenue)

\* the runway rule with "netBurn >= 0" for its test
RunwayBreakEvenBurns(cash, netBurn) ==
    IF ~netBurn.nan /\ netBurn.n >= 0
    THEN NumFloor(NumDiv(cash, netBurn)) ELSE Num(SentinelRunway)

\* the runway rule rounding up instead of down
RunwayRoundedUp(cash, netBurn) ==
    IF NumGT0(netBurn)
    THEN LET q == NumDiv(cash, netBurn)
         IN  IF q.nan THEN NaN ELSE Num(-((-q.n) \div q.d))
    ELSE Num(SentinelRunway)

\* netBurn > 0 ? Math.floor(cashBalance / netBurn) : 999
Runway(cash, netBurn) ==
    IF NumGT0(netBurn) THEN NumFloor(NumDiv(cash, netBurn)) ELSE Num(SentinelRunway)

CashRunwayData(m) ==
    [cashBalance |-> m.cashBalance,
     monthlyRevenue |-> m.monthlyRevenue,
     monthlyExpenses |-> m.monthlyExpenses,
     netBurn |-> NetBurn(m),
     runwayMonths |-> Runway(m.cashBalance, NetBurn(m))]

BurnRateData(m) ==
    [monthlyRevenue |-> m.monthlyRevenue,
     monthlyExpenses |-> m.monthlyExpenses,
     netBurn |-> NetBurn(m)]

\* the margin as a fraction, the "* 100" forgotten
ProfitMarginFraction(m) ==
    IF NumGT0(m.monthlyRevenue)
    THEN NumDiv(NumSub(m.monthlyRevenue, m.monthlyExpenses), m.monthlyRevenue)
    ELSE Num(0)

\* monthlyRevenue > 0 ? ((monthlyRevenue - monthlyExpenses) / monthlyRevenue) * 100 : 0
ProfitMargin(m) ==
    IF NumGT0(m.monthlyRevenue)
    THEN NumMul(NumDiv(NumSub(m.monthlyRevenue, m.monthlyExpenses), m.monthlyRevenue),
                Num(Percent))
    ELSE Num(0)

ProfitMarginData(m) ==
    [monthlyRevenue |-> m.monthlyRevenue,
     monthlyExpenses |-> m.monthlyExpenses,
     profitMargin |-> ProfitMargin(m)]

\* the salary charged whole to one month
MonthlySalaryCostAnnual(annualSalary) == Num(annualSalary)

MonthlySalaryCost(annualSalary) == NumDiv(Num(annualSalary), Num(MonthsPerYear))

NewMonthlyExpenses(m, annualSalary) ==
    NumAdd(m.monthlyExpenses, MonthlySalaryCost(annualSalary))

NewNetBurn(m, annualSalary) ==
    NumSub(NewMonthlyExpenses(m, annualSalary), m.monthlyRevenue)

HiringImpactData(m, annualSalary) ==
    [currentRunway |-> Runway(m.cashBalance, NetBurn(m)),
     newRunway |-> Runway(m.cashBalance, NewNetBurn(m, annualSalary)),
     annualSalary |-> Num(annualSalary),
     monthlyCost |-> MonthlySalaryCost(annualSalary),
     currentMonthlyExpenses |-> m.monthlyExpenses,
     newMonthlyExpenses |-> NewMonthlyExpenses(m, annualSalary)]

----------------------------------------------------------------------------
(* lib/openai.ts: the prompts.  A prompt is the list of the lines of its   *)
(* template that interpolate a value: the label of the line, the quantity  *)
(* interpolated, how it is rendered, and the text written in place of a    *)
(* number where the template writes one.                                   *)

\* the prompt of a generator call: the template of the generator, filled in from
\* the metrics of the call, the salary and the question
Template(kind, annualSalary, question) ==
    [template |-> kind, annualSalary |-> annualSalary, question |-> question]

NoPrompt == Template("none", 0, "")

\* $${x.toLocaleString()}
Dollars(label, x) == [label |-> label, number |-> TRUE, quantity |-> x, as |-> "dollars", text |-> ""]

\* ${x.toFixed(1)}%
PercentLine(label, x) ==
    [label |-> label, number |-> TRUE, quantity |-> x, as |-> "percent", text |-> ""]

\* "${question}"
Quoted(label, s) == [label |-> label, number |-> FALSE, quantity |-> NaN, as |-> "quoted", text |-> s]

\* ${runway === 999 ? 'infinite (profitable)' : `${runway} months`}
RunwayLine(label, runway, profitable) ==
    IF runway = Num(SentinelRunway)
    THEN [label |-> label, number |-> FALSE, quantity |-> runway, as |-> "text",
          text |-> profitable]
    ELSE [label |-> label, number |-> TRUE, quantity |-> runway, as |-> "months", text |-> ""]

CashRunwayPrompt(m) ==
    <<Dollars("Cash balance", m.cashBalance),
      Dollars("Monthly revenue", m.monthlyRevenue),
      Dollars("Monthly expenses", m.monthlyExpenses),
      Dollars("Net monthly burn", NetBurn(m)),
      RunwayLine("Calculated runway", Runway(m.cashBalance, NetBurn(m)),
                 "infinite (profitable)")>>

BurnRatePrompt(m) ==
    <<Dollars("Monthly revenue", m.monthlyRevenue),
      Dollars("Monthly expenses", m.monthlyExpenses),
      Dollars("Net monthly burn", NetBurn(m))>>

ProfitMarginPrompt(m) ==
    <<Dollars("Monthly revenue", m.monthlyRevenue),
      Dollars("Monthly expenses", m.monthlyExpenses),
      PercentLine("Profit margin", ProfitMargin(m))>>

HiringImpactPrompt(m, annualSalary) ==
    <<Dollars("Cash balance", m.cashBalance),
      Dollars("Monthly revenue", m.monthlyRevenue),
      Dollars("Monthly expenses", m.monthlyExpenses),
      RunwayLine("Current runway", Runway(m.cashBalance, NetBurn(m)),
                 "infinite (profitable)"),
      Dollars("Annual salary", Num(annualSalary)),
      Dollars("Monthly cost", MonthlySalaryCost(annualSalary)),
      Dollars("New monthly expenses", NewMonthlyExpenses(m, annualSalary)),
      RunwayLine("New runway", Runway(m.cashBalance, NewNetBurn(m, annualSalary)),
                 "infinite (still profitable)")>>

CustomPrompt(m, question) ==
    <<Dollars("Cash balance", m.cashBalance),
      Dollars("Monthly revenue", m.monthlyRevenue),
      Dollars("Monthly expenses", m.monthlyExpenses),
      Quoted("Their question", question)>>

\* the lines a template writes for the metrics m
PromptLines(p, m) ==
    CASE p.template = "cash_runway" -> CashRunwayPrompt(m)
      [] p.template = "burn_rate" -> BurnRatePrompt(m)
      [] p.template = "profit_margin" -> ProfitMarginPrompt(m)
      [] p.template = "hiring_impact" -> HiringImpactPrompt(m, p.annualSalary)
      [] p.template = "custom" -> CustomPrompt(m, p.question)
      [] OTHER -> <<>>

----------------------------------------------------------------------------
(* lib/openai.ts: the narrative call and the packaging of a result *)

Fallback == "Unable to generate insight."

\* message.content of a chat completion: a string or null
Text(s) == [null |-> FALSE, s |-> s]
NullContent == [null |-> TRUE, s |-> ""]

\* what openai.chat.completions.create can do: reject, or resolve to a
\* completion with a list of choices
Rejected == [ok |-> FALSE, choices |-> <<>>]
Completion(content) == [ok |-> TRUE, choices |-> <<[content |-> content]>>]
NoChoices == [ok |-> TRUE, choices |-> <<>>]

Responses ==
    {Rejected, NoChoices, Completion(NullContent), Completion(Text("")),
     Completion(Text("Your business is doing fine."))}

\* content ?? 'Unable to generate insight.': only null is replaced
OrFallbackNullOnly(content) ==
    IF content.null THEN Fallback ELSE content.s

\* content || 'Unable to generate insight.'
OrFallback(content) ==
    IF content.null \/ content.s = "" THEN Fallback ELSE content.s

NoResponse == [ok |-> FALSE, choices |-> <<[content |-> NullContent]>>]
NoInsight == [status |-> "none"]
Thrown == [status |-> "thrown"]

\* the tail of every generator: await the completion, then build the Insight.
\* A rejected call, or choices[0] being undefined, makes the generator throw.
Package(type, title, resp, data) ==
    IF ~resp.ok \/ Len(resp.choices) = 0 THEN Thrown
    ELSE [status |-> "returned", type |-> type, title |-> title,
          text |-> OrFallback(resp.choices[1].content), data |-> data]

\* Number.prototype.toLocaleString, for the integers below 1000 in magnitude
\* that the model uses (no grouping separator appears)
LocaleString(i) == ToString(i)

HiringTitle(annualSalary) ==
    "Hiring Impact ($" \o LocaleString(annualSalary) \o "/year)"

----------------------------------------------------------------------------
(* The inputs of the generator *)

MoneyValues == {Num(i) : i \in -1..MaxMoney} \cup {Norm(3, 2), NaN}
CashValues == {Num(i) : i \in -1..MaxCash} \cup {Num(SentinelRunway), NaN}
SalaryValues == {-12, 0, 6, MaxSalary}
Questions == {"Can I afford to hire?", "Should I raise prices?"}

MetricsRecords ==
    [cashBalance : CashValues, monthlyRevenue : MoneyValues,
     monthlyExpenses : MoneyValues]

NoHiring == [calls |-> 0, salary |-> 0, currentRunway |-> NaN, newRunway |-> NaN]

\* the bookkeeping of generateHiringImpact calls on the current object
NoteHiring(result, annualSalary) ==
    IF result.status # "returned" THEN firstHiring
    ELSE IF firstHiring.calls = 0
         THEN [calls |-> 1, salary |-> annualSalary,
               currentRunway |-> result.data.currentRunway,
               newRunway |-> result.data.newRunway]
         ELSE [firstHiring EXCEPT !.calls = 2]

----------------------------------------------------------------------------
(* lib/openai.ts: the generators, each one call from start to return *)

GenerateCashRunway ==
    /\ callCount < MaxCalls
    /\ callCount' = callCount + 1
    /\ \E r \in Responses :
          /\ response' = r
          /\ insight' = Package("cash_runway", "Cash Runway", r, CashRunwayData(metrics))
    /\ prompt' = Template("cash_runway", 0, "")
    /\ UNCHANGED <<metrics, snapshot, firstHiring>>
    /\ UNCHANGED extractVars
    /\ UNCHANGED routeVars
    /\ UNCHANGED dateVars
    /\ UNCHANGED oauthVars

GenerateBurnRate ==
    /\ callCount < MaxCalls
    /\ callCount' = callCount + 1
    /\ \E r \in Responses :
          /\ response' = r
          /\ insight' = Package("burn_rate", "Monthly Spending", r, BurnRateData(metrics))
    /\ prompt' = Template("burn_rate", 0, "")
    /\ UNCHANGED <<metrics, snapshot, firstHiring>>
    /\ UNCHANGED extractVars
    /\ UNCHANGED routeVars
    /\ UNCHANGED dateVars
    /\ UNCHANGED oauthVars

GenerateProfitMargin ==
    /\ callCount < MaxCalls
    /\ callCount' = callCount + 1
    /\ \E r \in Responses :
          /\ response' = r
          /\ insight' = Package("profit_margin", "Profit Margin", r, ProfitMarginData(metrics))
    /\ prompt' = Template("profit_margin", 0, "")
    /\ UNCHANGED <<metrics, snapshot, firstHiring>>
    /\ UNCHANGED extractVars
    /\ UNCHANGED routeVars
    /\ UNCHANGED dateVars
    /\ UNCHANGED oauthVars

\* a generateHiringImpact that wrote its new expense figure into the object
GenerateHiringImpactInPlace ==
    /\ callCount < MaxCalls
    /\ callCount' = callCount + 1
    /\ \E r \in Responses, annualSalary \in SalaryValues :
          /\ response' = r
          /\ insight' = Package("hiring_impact", HiringTitle(annualSalary), r,
                                HiringImpactData(metrics, annualSalary))
          /\ firstHiring' = NoteHiring(insight', annualSalary)
          /\ prompt' = Template("hiring_impact", annualSalary, "")
          /\ metrics' = [metrics EXCEPT
                           !.monthlyExpenses = NewMonthlyExpenses(metrics, annualSalary)]
    /\ UNCHANGED snapshot
    /\ UNCHANGED extractVars
    /\ UNCHANGED routeVars
    /\ UNCHANGED dateVars
    /\ UNCHANGED oauthVars

GenerateHiringImpact ==
    /\ callCount < MaxCalls
    /\ callCount' = callCount + 1
    /\ \E r \in Responses, annualSalary \in SalaryValues :
          /\ response' = r
          /\ insight' = Package("hiring_impact", HiringTitle(annualSalary), r,
                                HiringImpactData(metrics, annualSalary))
          /\ firstHiring' = NoteHiring(insight', annualSalary)
          /\ prompt' = Template("hiring_impact", annualSalary, "")
    /\ UNCHANGED <<metrics, snapshot>>
    /\ UNCHANGED extractVars
    /\ UNCHANGED routeVars
    /\ UNCHANGED dateVars
    /\ UNCHANGED oauthVars

GenerateCustomInsight ==
    /\ callCount < MaxCalls
    /\ callCount' = callCount + 1
    /\ \E r \in Responses, question \in Questions :
          /\ response' = r
          /\ insight' = Package("custom", question, r, metrics)
          /\ prompt' = Template("custom", 0, question)
    /\ UNCHANGED <<metrics, snapshot, firstHiring>>
    /\ UNCHANGED extractVars
    /\ UNCHANGED routeVars
    /\ UNCHANGED dateVars
    /\ UNCHANGED oauthVars

NoReport == [k |-> "none"]
NoRequest == [authenticated |-> FALSE, connections |-> <<>>, insightType |-> "",
              annualSalary |-> [given |-> FALSE, n |-> 0, s |-> ""],
              question |-> [given |-> FALSE, n |-> 0, s |-> ""]]
NoBooks == [provider |-> "none", reports |-> <<>>]
NoHttp == [status |-> 0, error |-> "", shape |-> "", insights |-> <<>>]
NoListing == [k |-> "nullish", Reports |-> [k |-> "absent", elems |-> <<>>],
              Accounts |-> [k |-> "absent", elems |-> <<>>]]
NoExtract == [fn |-> "none", status |-> "none", value |-> NaN]

NoClock == [t |-> 0, offset |-> 0]
NoRanges == [client |-> "none", currentPL |-> <<>>, lastMonthPL |-> <<>>, balanceSheet |-> <<>>]

NoParam == [given |-> FALSE, n |-> 0, s |-> ""]
NoBrowser == [user |-> "none", cookie |-> [quickbooks |-> NoParam, xero |-> NoParam]]
NoCallback ==
    [pc |-> "idle", provider |-> "none", code |-> NoParam, state |-> NoParam,
     realmId |-> NoParam, user |-> "none", trace |-> <<>>, redirect |-> "",
     replay |-> FALSE, consumed |-> {}, rowsBefore |-> <<>>,
     cookieBefore |-> NoParam]

\* the OAuth flows at rest, for the specifications that do not run them
OAuthIdle ==
    /\ browser = NoBrowser
    /\ connectionRows = <<>>
    /\ callback = NoCallback
    /\ issued = 0
    /\ served = 0

\* the clock at rest, for the specifications that build no date range
DatesIdle ==
    /\ today = NoClock
    /\ ranges = NoRanges

\* the route at rest, for the specifications that do not run it
RouteIdle ==
    /\ pc = "idle"
    /\ req = NoRequest
    /\ books = NoBooks
    /\ fetches = <<>>
    /\ narr = <<>>
    /\ completed = <<>>
    /\ results = <<>>
    /\ inserts = <<>>
    /\ http = NoHttp

InitGen ==
    /\ metrics \in MetricsRecords
    /\ snapshot = metrics
    /\ response = NoResponse
    /\ insight = NoInsight
    /\ prompt = NoPrompt
    /\ callCount = 0
    /\ firstHiring = NoHiring
    /\ report = NoReport
    /\ metricName = <<>>
    /\ extracted = NoExtract
    /\ bankAccounts = NoListing
    /\ RouteIdle
    /\ DatesIdle
    /\ OAuthIdle

NextGen ==
    \/ GenerateCashRunway
    \/ GenerateBurnRate
    \/ GenerateProfitMargin
    \/ GenerateHiringImpact
    \/ GenerateCustomInsight

SpecGen == InitGen /\ [][NextGen]_vars

----------------------------------------------------------------------------
(* Raw report JSON.  Strings are sequences of characters, so that parseFloat  *)
(* and === act on their text.                                                 *)

TotalIncome == <<"T", "o", "t", "a", "l", " ", "I", "n", "c", "o", "m", "e">>
TotalExpenses ==
    <<"T", "o", "t", "a", "l", " ", "E", "x", "p", "e", "n", "s", "e", "s">>
CashAndCashEquivalents ==
    <<"C", "a", "s", "h", " ", "a", "n", "d", " ", "c", "a", "s", "h", " ",
      "e", "q", "u", "i", "v", "a", "l", "e", "n", "t", "s">>

\* a JSON value in a "value" position: undefined, a string or a number
Undef == [k |-> "undef", s |-> <<>>, n |-> 0]
Str(chars) == [k |-> "str", s |-> chars, n |-> 0]
NumV(i) == [k |-> "num", s |-> <<>>, n |-> i]

\* an element of a ColData array: null, or an object with a value
NullCell == [k |-> "nullish", value |-> Undef]
Cell(v) == [k |-> "obj", value |-> v]

\* a ColData property: absent, or an array of cells
NoColData == [k |-> "absent", cells |-> <<>>]
Arr(cells) == [k |-> "array", cells |-> cells]

\* a Header property: absent, or an object with a ColData property
NoHeader == [k |-> "absent", ColData |-> NoColData]
Header(colData) == [k |-> "obj", ColData |-> colData]

\* a Rows.Row property: absent, an array, or a truthy value that for...of
\* cannot iterate (an object)
NoRowList == [k |-> "absent", elems |-> <<>>]
RowArray(elems) == [k |-> "array", elems |-> elems]
NotIterable == [k |-> "noniter", elems |-> <<>>]

\* a Rows property: absent, or an object with a Row property
NoRows == [k |-> "absent", Row |-> NoRowList]
RowsObj(rowList) == [k |-> "obj", Row |-> rowList]

\* an element of a Row array: null, or an object
NullRow == [k |-> "null", Header |-> NoHeader, ColData |-> NoColData, Rows |-> NoRows]
Row(header, colData, rows) ==
    [k |-> "obj", Header |-> header, ColData |-> colData, Rows |-> rows]

\* a report: null, or an object with a Rows property
NullReport == [k |-> "nullish", Rows |-> NoRows]
Report(rows) == [k |-> "obj", Rows |-> rows]

----------------------------------------------------------------------------
(* parseFloat: leading blanks, an optional sign, digits, an optional fraction; *)
(* the longest such prefix is the number, and NaN when it holds no digit.     *)
(* (Exponents and the literal Infinity are not among the modelled texts.)     *)

Digits == {"0", "1", "2", "3", "4", "5", "6", "7", "8", "9"}

DigitValue(c) ==
    CASE c = "0" -> 0 [] c = "1" -> 1 [] c = "2" -> 2 [] c = "3" -> 3
      [] c = "4" -> 4 [] c = "5" -> 5 [] c = "6" -> 6 [] c = "7" -> 7
      [] c = "8" -> 8 [] c = "9" -> 9

RECURSIVE SkipBlanks(_)
SkipBlanks(s) ==
    IF Len(s) > 0 /\ s[1] = " " THEN SkipBlanks(Tail(s)) ELSE s

\* the number of digits s carries from position i on
RECURSIVE DigitRun(_, _)
DigitRun(s, i) ==
    IF i <= Len(s) /\ s[i] \in Digits THEN 1 + DigitRun(s, i + 1) ELSE 0

\* the value of the digits s[i .. i + len - 1], continuing from acc
RECURSIVE DigitsValue(_, _, _, _)
DigitsValue(s, i, len, acc) ==
    IF len = 0 THEN acc
    ELSE DigitsValue(s, i + 1, len - 1, 10 * acc + DigitValue(s[i]))

RECURSIVE Pow10(_)
Pow10(k) == IF k = 0 THEN 1 ELSE 10 * Pow10(k - 1)

ParseFloatText(s) ==
    LET t == SkipBlanks(s)
        signed == Len(t) > 0 /\ t[1] \in {"-", "+"}
        negative == Len(t) > 0 /\ t[1] = "-"
        u == IF signed THEN Tail(t) ELSE t
        ni == DigitRun(u, 1)
        hasDot == ni < Len(u) /\ u[ni + 1] = "."
        nf == IF hasDot THEN DigitRun(u, ni + 2) ELSE 0
        whole == DigitsValue(u, 1, ni, 0)
        scaled == DigitsValue(u, ni + 2, nf, whole)
    IN  IF ni = 0 /\ nf = 0 THEN NaN
        ELSE Norm(IF negative THEN -scaled ELSE scaled, Pow10(nf))

\* parseFloat(v): a number argument is first turned into its text
ParseFloat(v) ==
    CASE v.k = "str" -> ParseFloatText(v.s)
      [] v.k = "num" -> Num(v.n)
      [] OTHER -> NaN

\* v || '0'
OrZeroText(v) ==
    IF v.k = "undef" \/ (v.k = "str" /\ v.s = <<>>) \/ (v.k = "num" /\ v.n = 0)
    THEN Str(<<"0">>)
    ELSE v

\* v === name
StrictEquals(v, name) == v.k = "str" /\ v.s = name

\* colData?.[i]?.value, i counted from 1
CellValue(colData, i) ==
    IF colData.k # "array" \/ i > Len(colData.cells) THEN Undef
    ELSE IF colData.cells[i].k = "nullish" THEN Undef
    ELSE colData.cells[i].value

\* row.Header?.ColData?.[0]?.value
HeaderLabel(row) ==
    IF row.Header.k = "absent" THEN Undef ELSE CellValue(row.Header.ColData, 1)

----------------------------------------------------------------------------
(* lib/quickbooks.ts: extractMetric and extractBalanceSheetMetric *)

Ret(x) == [threw |-> FALSE, value |-> x]
Throws == [threw |-> TRUE, value |-> NaN]

\* no catch: the exception leaves the extractor
Uncaught(outcome) == outcome

\* catch (error) { return 0 }
Caught(outcome) == IF outcome.threw THEN Ret(Num(0)) ELSE outcome

\* report.Rows?.Row || [], as the list the loop runs over
TopRowList(rep) ==
    IF rep.Rows.k = "absent" \/ rep.Rows.Row.k = "absent" THEN RowArray(<<>>)
    ELSE rep.Rows.Row

\* the loop of extractMetric without its early return: a later match
\* overwrites an earlier one
RECURSIVE ScanRowsKeepingLast(_, _, _)
ScanRowsKeepingLast(rows, i, name) ==
    IF i > Len(rows) THEN Ret(Num(0))
    ELSE IF rows[i].k = "null" THEN Throws
    ELSE LET rest == ScanRowsKeepingLast(rows, i + 1, name)
             matches(j) == /\ rows[j].k = "obj"
                           /\ rows[j].ColData.k # "absent"
                           /\ StrictEquals(HeaderLabel(rows[j]), name)
         IN  IF rest.threw \/ (\E j \in (i + 1)..Len(rows) : matches(j)) THEN rest
             ELSE IF matches(i)
                  THEN Ret(ParseFloat(OrZeroText(CellValue(rows[i].ColData, 2))))
             ELSE rest

\* the loop of extractMetric from row i on
RECURSIVE ScanRows(_, _, _)
ScanRows(rows, i, name) ==
    IF i > Len(rows) THEN Ret(Num(0))
    ELSE IF rows[i].k = "null" THEN Throws
    ELSE IF rows[i].ColData.k # "absent" /\ StrictEquals(HeaderLabel(rows[i]), name)
         THEN Ret(ParseFloat(OrZeroText(CellValue(rows[i].ColData, 2))))
    ELSE ScanRows(rows, i + 1, name)

\* the try block of extractMetric
ExtractMetricBody(rep, name) ==
    IF rep.k = "nullish" THEN Throws
    ELSE IF TopRowList(rep).k = "noniter" THEN Throws
    ELSE ScanRows(TopRowList(rep).elems, 1, name)

extractMetric(rep, name) == Caught(ExtractMetricBody(rep, name))

\* the inner loop of extractBalanceSheetMetric from row i of one section on;
\* found tells whether a row matched
RECURSIVE ScanSection(_, _, _)
ScanSection(rows, i, name) ==
    IF i > Len(rows) THEN [found |-> FALSE, outcome |-> Ret(Num(0))]
    ELSE IF rows[i].k = "null" THEN [found |-> TRUE, outcome |-> Throws]
    ELSE IF StrictEquals(CellValue(rows[i].ColData, 1), name)
         THEN [found |-> TRUE,
               outcome |-> Ret(ParseFloat(OrZeroText(CellValue(rows[i].ColData, 2))))]
    ELSE ScanSection(rows, i + 1, name)

\* the outer loop of extractBalanceSheetMetric, had it also tested the
\* top-level rows themselves
RECURSIVE ScanSectionsAndTopRows(_, _, _)
ScanSectionsAndTopRows(sections, i, name) ==
    IF i > Len(sections) THEN Ret(Num(0))
    ELSE IF sections[i].k = "null" THEN Throws
    ELSE IF StrictEquals(CellValue(sections[i].ColData, 1), name)
         THEN Ret(ParseFloat(OrZeroText(CellValue(sections[i].ColData, 2))))
    ELSE IF sections[i].Rows.k = "absent" \/ sections[i].Rows.Row.k = "absent"
         THEN ScanSectionsAndTopRows(sections, i + 1, name)
    ELSE IF sections[i].Rows.Row.k = "noniter" THEN Throws
    ELSE LET inner == ScanSection(sections[i].Rows.Row.elems, 1, name)
         IN  IF inner.found THEN inner.outcome
             ELSE ScanSectionsAndTopRows(sections, i + 1, name)

\* the outer loop of extractBalanceSheetMetric from section i on
RECURSIVE ScanSections(_, _, _)
ScanSections(sections, i, name) ==
    IF i > Len(sections) THEN Ret(Num(0))
    ELSE IF sections[i].k = "null" THEN Throws
    ELSE IF sections[i].Rows.k = "absent" \/ sections[i].Rows.Row.k = "absent"
         THEN ScanSections(sections, i + 1, name)
    ELSE IF sections[i].Rows.Row.k = "noniter" THEN Throws
    ELSE LET inner == ScanSection(sections[i].Rows.Row.elems, 1, name)
         IN  IF inner.found THEN inner.outcome
             ELSE ScanSections(sections, i + 1, name)

\* the try block of extractBalanceSheetMetric
ExtractBalanceSheetMetricBody(rep, name) ==
    IF rep.k = "nullish" THEN Throws
    ELSE IF TopRowList(rep).k = "noniter" THEN Throws
    ELSE ScanSections(TopRowList(rep).elems, 1, name)

extractBalanceSheetMetric(rep, name) ==
    Caught(ExtractBalanceSheetMetricBody(rep, name))

----------------------------------------------------------------------------
(* The reports handed to the extractors: every list of rows and sections of   *)
(* at most MaxNodes rows in all, and the malformed shapes                     *)

\* the "value" of a number cell
DataValues ==
    {Undef, Str(<<>>), Str(<<"7">>), Str(<<"-", "3">>), Str(<<"1", ".", "5">>),
     Str(<<" ", "8">>), Str(<<"+", "2">>), Str(<<".", "5">>), Str(<<"-">>),
     Str(<<"a", "b", "c">>), Str(<<"4", "x">>), NumV(5), NumV(0)}

LabelCell(name) == Cell(Str(name))
Labelled(name) == Header(Arr(<<LabelCell(name)>>))

\* a profit-and-loss row: a header label and the cells [label, value]
Line(name, v) == Row(Labelled(name), Arr(<<LabelCell(name), Cell(v)>>), NoRows)

\* a balance-sheet row: the cells [label, value] and no header
Leaf(name, v) == Row(NoHeader, Arr(<<LabelCell(name), Cell(v)>>), NoRows)

\* the top-level rows without child rows that the reports are built from
FlatRows ==
    <<NullRow,
      Row(Labelled(TotalIncome), NoColData, NoRows),
      Row(Labelled(TotalIncome), Arr(<<LabelCell(TotalIncome)>>), NoRows),
      Line(TotalIncome, Str(<<"7">>)),
      Line(TotalIncome, Str(<<"-", "3">>)),
      Line(TotalExpenses, Str(<<"1", "2">>)),
      Row(Labelled(TotalExpenses), Arr(<<LabelCell(TotalExpenses), NullCell>>), NoRows),
      Leaf(TotalIncome, Str(<<"7">>)),
      Row(Header(NoColData), Arr(<<LabelCell(TotalIncome), Cell(Str(<<"7">>))>>), NoRows),
      Row(NoHeader, NoColData, RowsObj(NotIterable)),
      Row(NoHeader, NoColData, RowsObj(RowArray(<<>>)))>>

\* the rows inside a balance-sheet section
ChildRows ==
    <<NullRow,
      Leaf(CashAndCashEquivalents, Str(<<"7">>)),
      Leaf(CashAndCashEquivalents, Str(<<"-", "3">>)),
      Leaf(TotalIncome, Str(<<"1", "2">>)),
      Row(NoHeader, Arr(<<LabelCell(CashAndCashEquivalents)>>), NoRows),
      Row(NoHeader, NoColData,
          RowsObj(RowArray(<<Leaf(CashAndCashEquivalents, Str(<<"1", "2">>))>>)))>>

Section(children) == Row(NoHeader, NoColData, RowsObj(RowArray(children)))

\* The shape of a top-level row: <<i>> for the flat row FlatRows[i], and
\* <<0, j1, .., jc>> for a section of the child rows ChildRows[j1], ..
RowShapes(c) ==
    IF c = 0 THEN {<<i>> : i \in 1..Len(FlatRows)}
    ELSE {<<0>> \o js : js \in [1..c -> 1..Len(ChildRows)]}

\* the shapes of the lists of top-level rows with exactly n rows in all
RowListShapes[n \in 0..MaxNodes] ==
    IF n = 0 THEN {<<>>}
    ELSE UNION {{<<r>> \o rest : r \in RowShapes(c), rest \in RowListShapes[n - 1 - c]} :
                   c \in 0..(n - 1)}

RowOfShape(shape) ==
    IF Len(shape) = 1 THEN FlatRows[shape[1]]
    ELSE Section([j \in 1..(Len(shape) - 1) |-> ChildRows[shape[j + 1]]])

RowsOfShape(shapes) == [i \in 1..Len(shapes) |-> RowOfShape(shapes[i])]

ReportOf(rows) == Report(RowsObj(RowArray(rows)))

\* the malformed reports, and one report for each value a number cell can hold
OddReports ==
    {NullReport, Report(NoRows), Report(RowsObj(NoRowList)), Report(RowsObj(NotIterable))}
    \cup {ReportOf(<<Line(TotalIncome, v)>>) : v \in DataValues}
    \cup {ReportOf(<<Section(<<Leaf(CashAndCashEquivalents, v)>>)>>) : v \in DataValues}

FlatNames == {TotalIncome, TotalExpenses}
NestedNames == {CashAndCashEquivalents, TotalIncome}

Outcome(o) == [status |-> IF o.threw THEN "thrown" ELSE "returned", value |-> o.value]

CallExtractMetric ==
    /\ \E name \in FlatNames :
          /\ metricName' = name
          /\ extracted' = [fn |-> "extractMetric"] @@ Outcome(extractMetric(report, name))
    /\ UNCHANGED <<report, bankAccounts>>
    /\ UNCHANGED genVars
    /\ UNCHANGED routeVars
    /\ UNCHANGED dateVars
    /\ UNCHANGED oauthVars

CallExtractBalanceSheetMetric ==
    /\ \E name \in NestedNames :
          /\ metricName' = name
          /\ extracted' = [fn |-> "extractBalanceSheetMetric"]
                            @@ Outcome(extractBalanceSheetMetric(report, name))
    /\ UNCHANGED <<report, bankAccounts>>
    /\ UNCHANGED genVars
    /\ UNCHANGED routeVars
    /\ UNCHANGED dateVars
    /\ UNCHANGED oauthVars

IdleMetrics == [cashBalance |-> Num(0), monthlyRevenue |-> Num(0), monthlyExpenses |-> Num(0)]

InitExtract ==
    /\ \/ report \in OddReports
       \/ \E n \in 0..MaxNodes : \E shapes \in RowListShapes[n] :
             report = ReportOf(RowsOfShape(shapes))
    /\ metricName = <<>>
    /\ extracted = NoExtract
    /\ bankAccounts = NoListing
    /\ metrics = IdleMetrics
    /\ snapshot = IdleMetrics
    /\ response = NoResponse
    /\ insight = NoInsight
    /\ prompt = NoPrompt
    /\ callCount = 0
    /\ firstHiring = NoHiring
    /\ RouteIdle
    /\ DatesIdle
    /\ OAuthIdle

NextExtract ==
    \/ CallExtractMetric
    \/ CallExtractBalanceSheetMetric

SpecExtract == InitExtract /\ [][NextExtract]_vars

----------------------------------------------------------------------------
(* lib/xero.ts: the raw JSON of a Xero report and of the bank-account listing *)

Revenue == <<"R", "e", "v", "e", "n", "u", "e">>
Expenses == <<"E", "x", "p", "e", "n", "s", "e", "s">>

\* a cell: null, or an object with a Value
XeroNullCell == [k |-> "nullish", Value |-> Undef]
XeroCell(v) == [k |-> "obj", Value |-> v]

\* row.Cells: absent, or an array of cells
NoCells == [k |-> "absent", cells |-> <<>>]
Cells(cells) == [k |-> "array", cells |-> cells]

\* a row of a section: null, or an object
XeroNullRow == [k |-> "null", Cells |-> NoCells]
XeroRow(cells) == [k |-> "obj", Cells |-> cells]

\* Rows of a section or of a report: absent, an array, or an object that
\* is not iterable
NoXeroRows == [k |-> "absent", elems |-> <<>>]
XeroRows(elems) == [k |-> "array", elems |-> elems]
XeroRowsNotIterable == [k |-> "noniter", elems |-> <<>>]

\* a section: null, or an object with a Title and Rows
XeroNullSection == [k |-> "null", Title |-> Undef, Rows |-> NoXeroRows]
XeroSection(title, rows) == [k |-> "obj", Title |-> title, Rows |-> rows]

\* an element of Reports: null, or an object with Rows
XeroNullEntry == [k |-> "null", Rows |-> NoXeroRows]
XeroEntry(rows) == [k |-> "obj", Rows |-> rows]

\* Reports of a response: absent, or an array
NoReports == [k |-> "absent", elems |-> <<>>]
ReportsArray(elems) == [k |-> "array", elems |-> elems]

\* an account of the listing: null, or an object with a BankAccountBalance
NullAccount == [k |-> "null", BankAccountBalance |-> Undef]
Account(balance) == [k |-> "obj", BankAccountBalance |-> balance]

\* Accounts of a response: absent, an array, or a value without reduce
NoAccounts == [k |-> "absent", elems |-> <<>>]
AccountsArray(elems) == [k |-> "array", elems |-> elems]
AccountsNotArray == [k |-> "nonarray", elems |-> <<>>]

\* a response of the Xero API: null, a report response (Reports and no
\* Accounts), or a listing (Accounts and no Reports)
XeroNullReport == [k |-> "nullish", Reports |-> NoReports, Accounts |-> NoAccounts]
XeroReport(reports) == [k |-> "obj", Reports |-> reports, Accounts |-> NoAccounts]
NullListing == XeroNullReport
Listing(accounts) == [k |-> "obj", Reports |-> NoReports, Accounts |-> accounts]

----------------------------------------------------------------------------
(* lib/xero.ts: extractMetric and totalCash of getFinancialData *)

\* the inner loop of extractMetric, had it returned the first row's value as
\* the QuickBooks extractor does
RECURSIVE SumRowsFirstOnly(_, _, _)
SumRowsFirstOnly(rows, i, total) ==
    IF i > Len(rows) THEN Ret(total)
    ELSE IF rows[i].k = "null" THEN Throws
    ELSE IF rows[i].Cells.k = "array" /\ Len(rows[i].Cells.cells) > 1
         THEN IF rows[i].Cells.cells[2].k = "nullish" THEN Throws
              ELSE Ret(ParseFloat(OrZeroText(rows[i].Cells.cells[2].Value)))
    ELSE SumRowsFirstOnly(rows, i + 1, total)

\* the inner loop of extractMetric from row i on, with the total so far
RECURSIVE SumRows(_, _, _)
SumRows(rows, i, total) ==
    IF i > Len(rows) THEN Ret(total)
    ELSE IF rows[i].k = "null" THEN Throws
    ELSE IF rows[i].Cells.k = "array" /\ Len(rows[i].Cells.cells) > 1
         THEN IF rows[i].Cells.cells[2].k = "nullish" THEN Throws
              ELSE SumRows(rows, i + 1,
                           NumAdd(total, ParseFloat(OrZeroText(rows[i].Cells.cells[2].Value))))
    ELSE SumRows(rows, i + 1, total)

\* the outer loop of extractMetric from section i on
RECURSIVE ScanXeroSections(_, _, _)
ScanXeroSections(sections, i, sectionName) ==
    IF i > Len(sections) THEN Ret(Num(0))
    ELSE IF sections[i].k = "null" THEN Throws
    ELSE IF StrictEquals(sections[i].Title, sectionName) /\ sections[i].Rows.k # "absent"
         THEN IF sections[i].Rows.k = "noniter" THEN Throws
              ELSE SumRows(sections[i].Rows.elems, 1, Num(0))
    ELSE ScanXeroSections(sections, i + 1, sectionName)

\* the try block of extractMetric
XeroExtractMetricBody(rep, sectionName) ==
    IF rep.k = "nullish" THEN Throws
    ELSE IF rep.Reports.k = "absent" \/ Len(rep.Reports.elems) = 0 THEN Ret(Num(0))
    ELSE IF rep.Reports.elems[1].k = "null" THEN Throws
    ELSE IF rep.Reports.elems[1].Rows.k = "noniter" THEN Throws
    ELSE ScanXeroSections(rep.Reports.elems[1].Rows.elems, 1, sectionName)

xeroExtractMetric(rep, sectionName) == Caught(XeroExtractMetricBody(rep, sectionName))

\* parseFloat(account.BankAccountBalance) || 0
BalanceOrZero(account) ==
    LET x == ParseFloat(account.BankAccountBalance)
    IN  IF x.nan THEN Num(0) ELSE x

\* the reduce over the accounts from account i on, with the sum so far
RECURSIVE SumAccounts(_, _, _)
SumAccounts(accounts, i, sum) ==
    IF i > Len(accounts) THEN Ret(sum)
    ELSE IF accounts[i].k = "null" THEN Throws
    ELSE SumAccounts(accounts, i + 1, NumAdd(sum, BalanceOrZero(accounts[i])))

\* bankAccounts.Accounts?.reduce(...) || 0, which no try block surrounds
totalCash(listing) ==
    IF listing.k = "nullish" THEN Throws
    ELSE IF listing.Accounts.k = "absent" THEN Ret(Num(0))
    ELSE IF listing.Accounts.k = "nonarray" THEN Throws
    ELSE SumAccounts(listing.Accounts.elems, 1, Num(0))

----------------------------------------------------------------------------
(* The Xero reports and listings handed to extractMetric and totalCash *)

\* a row [label, value]
XeroLine(v) == XeroRow(Cells(<<XeroCell(Str(<<"x">>)), XeroCell(v)>>))

XeroLines(vs) == XeroRows([i \in 1..Len(vs) |-> XeroLine(vs[i])])

\* the sections the reports are built from
XeroSections ==
    <<XeroNullSection,
      XeroSection(Str(Revenue),
                  XeroLines(<<Str(<<"1", "0", "0", "0">>), Str(<<"2", "0", "0", "0">>),
                              Str(<<"5", "0", "0">>)>>)),
      XeroSection(Str(Revenue), XeroLines(<<Str(<<"1", "2">>)>>)),
      XeroSection(Str(Revenue), XeroLines(<<>>)),
      XeroSection(Str(Revenue), NoXeroRows),
      XeroSection(Str(Revenue), XeroRowsNotIterable),
      XeroSection(Str(Revenue), XeroLines(<<Str(<<"7">>), Str(<<"a", "b", "c">>)>>)),
      XeroSection(Str(Revenue), XeroLines(<<NumV(5), Undef, Str(<<>>), Str(<<"1", ".", "5">>)>>)),
      XeroSection(Str(Revenue),
                  XeroRows(<<XeroRow(Cells(<<XeroCell(Str(<<"9">>))>>)), XeroRow(NoCells),
                             XeroLine(Str(<<"7">>))>>)),
      XeroSection(Str(Revenue), XeroRows(<<XeroLine(Str(<<"7">>)), XeroNullRow>>)),
      XeroSection(Str(Revenue),
                  XeroRows(<<XeroRow(Cells(<<XeroCell(Str(<<"x">>)), XeroNullCell>>))>>)),
      XeroSection(Str(<<"r", "e", "v", "e", "n", "u", "e">>), XeroLines(<<Str(<<"7">>)>>)),
      XeroSection(Undef, XeroLines(<<Str(<<"7">>)>>)),
      XeroSection(Str(Expenses), XeroLines(<<Str(<<"7">>), Str(<<"-", "3">>)>>))>>

XeroReportOf(sections) == XeroReport(ReportsArray(<<XeroEntry(XeroRows(sections))>>))

\* the lists of at most MaxSections sections, by index into XeroSections
SectionLists == UNION {[1..n -> 1..Len(XeroSections)] : n \in 0..MaxSections}

SectionsOf(list) == [i \in 1..Len(list) |-> XeroSections[list[i]]]

\* the malformed responses, and one whose second report holds the section
OddXeroReports ==
    {XeroNullReport, XeroReport(NoReports), XeroReport(ReportsArray(<<>>)),
     XeroReport(ReportsArray(<<XeroNullEntry>>)),
     XeroReport(ReportsArray(<<XeroEntry(NoXeroRows)>>)),
     XeroReport(ReportsArray(<<XeroEntry(XeroRowsNotIterable)>>)),
     XeroReport(ReportsArray(<<XeroEntry(XeroRows(<<>>)),
                               XeroEntry(XeroRows(<<XeroSections[3]>>))>>))}

\* the accounts the listings are built from
Accounts ==
    <<NullAccount, Account(Str(<<"7">>)), Account(Str(<<"-", "3">>)),
      Account(Str(<<"1", ".", "5">>)), Account(Str(<<"a", "b", "c">>)), Account(Str(<<>>)),
      Account(Undef), Account(NumV(5))>>

AccountLists == UNION {[1..n -> 1..Len(Accounts)] : n \in 0..MaxAccounts}

AccountsOf(list) == [i \in 1..Len(list) |-> Accounts[list[i]]]

OddListings == {NullListing, Listing(NoAccounts), Listing(AccountsNotArray)}

SectionNames == {Revenue, Expenses}

CallXeroExtractMetric ==
    /\ \E name \in SectionNames :
          /\ metricName' = name
          /\ extracted' = [fn |-> "xeroExtractMetric"] @@ Outcome(xeroExtractMetric(report, name))
    /\ UNCHANGED <<report, bankAccounts>>
    /\ UNCHANGED genVars
    /\ UNCHANGED routeVars
    /\ UNCHANGED dateVars
    /\ UNCHANGED oauthVars

CallTotalCash ==
    /\ metricName' = <<>>
    /\ extracted' = [fn |-> "totalCash"] @@ Outcome(totalCash(bankAccounts))
    /\ UNCHANGED <<report, bankAccounts>>
    /\ UNCHANGED genVars
    /\ UNCHANGED routeVars
    /\ UNCHANGED dateVars
    /\ UNCHANGED oauthVars

InitXero ==
    /\ \/ /\ \/ report \in OddXeroReports
             \/ \E list \in SectionLists : report = XeroReportOf(SectionsOf(list))
          /\ bankAccounts = Listing(AccountsArray(<<>>))
       \/ /\ report = XeroReportOf(<<>>)
          /\ \/ bankAccounts \in OddListings
             \/ \E list \in AccountLists : bankAccounts = Listing(AccountsArray(AccountsOf(list)))
    /\ metricName = <<>>
    /\ extracted = NoExtract
    /\ metrics = IdleMetrics
    /\ snapshot = IdleMetrics
    /\ response = NoResponse
    /\ insight = NoInsight
    /\ prompt = NoPrompt
    /\ callCount = 0
    /\ firstHiring = NoHiring
    /\ RouteIdle
    /\ DatesIdle
    /\ OAuthIdle

NextXero ==
    \/ CallXeroExtractMetric
    \/ CallTotalCash

SpecXero == InitXero /\ [][NextXero]_vars

----------------------------------------------------------------------------
(* app/api/insights/generate/route.ts: the POST handler, with the report     *)
(* fetches of getFinancialData (lib/quickbooks.ts, lib/xero.ts) and the      *)
(* narrative calls                                                           *)
(* of the generators (lib/openai.ts) that it awaits.  The handler runs until *)
(* an await; the calls awaited together settle in any order.                 *)

\* the generators started by generateAllInsights, in the order of its array
Standard == <<"cash_runway", "burn_rate", "profit_margin">>

\* a member of params in the request body: absent, or a value
Absent == [given |-> FALSE, n |-> 0, s |-> ""]
SalaryParam(n) == [given |-> TRUE, n |-> n, s |-> ""]
QuestionParam(s) == [given |-> TRUE, n |-> 0, s |-> s]

\* a test that takes only a present zero or empty string for falsy
FalsyWhenPresent(p) == p.given /\ p.n = 0 /\ p.s = ""

\* !params?.annualSalary, !params?.question
Falsy(p) == ~p.given \/ (p.n = 0 /\ p.s = "")

\* the rows of the connections table of the user, by provider
ConnectionLists ==
    {<<>>, <<"quickbooks">>, <<"xero", "quickbooks">>, <<"freshbooks", "quickbooks">>}

Supported == {"quickbooks", "xero"}

Bodies ==
    {<<t, Absent, Absent>> :
        t \in {"cash_runway", "burn_rate", "profit_margin", "hiring_impact", "custom",
               "all", "forecast"}}
    \cup {<<"hiring_impact", SalaryParam(n), Absent>> : n \in SalaryValues}
    \cup {<<"custom", Absent, QuestionParam(q)>> : q \in {""} \cup Questions}

Requests ==
    {[authenticated |-> a, connections |-> c, insightType |-> b[1],
      annualSalary |-> b[2], question |-> b[3]] :
        a \in BOOLEAN, c \in ConnectionLists, b \in Bodies}

\* NextResponse.json: an error body, { insight } or { insights }
ErrorResponse(status, error) ==
    [status |-> status, error |-> error, shape |-> "error", insights |-> <<>>]
InsightResponse(ins) ==
    [status |-> 200, error |-> "", shape |-> "insight", insights |-> <<ins>>]
InsightsResponse(all) ==
    [status |-> 200, error |-> "", shape |-> "insights", insights |-> all]

\* the catch of the handler
Failed == ErrorResponse(500, "Failed to generate insights")

\* the three fetches of getFinancialData, in the order of its array
FetchRoles(provider) ==
    IF provider = "quickbooks" THEN <<"currentPL", "lastMonthPL", "balanceSheet">>
    ELSE <<"profitLoss", "balanceSheet", "bankAccounts">>

PendingFetch == [state |-> "pending", at |-> 0, report |-> NullReport]

\* what QuickBooks can hold for the user: the profit and loss of the current
\* month, that of last month, the balance sheet
QuickBooksProfitAndLoss ==
    <<ReportOf(<<Line(TotalIncome, Str(<<"7">>)), Line(TotalExpenses, Str(<<"1", "2">>))>>),
      ReportOf(<<Line(TotalIncome, Str(<<"1", "2">>)), Line(TotalExpenses, Str(<<"7">>))>>),
      ReportOf(<<Line(TotalIncome, Str(<<"a", "b", "c">>)), Line(TotalExpenses, Str(<<"7">>))>>)>>

QuickBooksBalanceSheets ==
    <<ReportOf(<<Section(<<Leaf(CashAndCashEquivalents, Str(<<"7">>))>>)>>),
      Report(NoRows)>>

QuickBooksLedgers ==
    {[provider |-> "quickbooks",
      reports |-> <<QuickBooksProfitAndLoss[c], QuickBooksProfitAndLoss[l],
                    QuickBooksBalanceSheets[b]>>] :
        c \in 1..2, l \in 1..3, b \in 1..2}

\* what Xero can hold for the user: the profit and loss of last month, the
\* balance sheet, the bank accounts
XeroProfitAndLoss ==
    <<XeroReportOf(<<XeroSections[2], XeroSections[14]>>),
      XeroReportOf(<<XeroSections[3], XeroSections[14]>>)>>

XeroBalanceSheets ==
    <<XeroReportOf(<<XeroSection(Str(<<"B", "a", "n", "k">>), XeroLines(<<Str(<<"1", "2">>)>>))>>),
      XeroReportOf(<<>>)>>

XeroListings ==
    <<Listing(AccountsArray(<<Account(Str(<<"7">>)), Account(Str(<<"a", "b", "c">>)),
                              Account(Undef), Account(Str(<<"-", "3">>))>>)),
      Listing(NoAccounts),
      NullListing>>

XeroLedgers ==
    {[provider |-> "xero",
      reports |-> <<XeroProfitAndLoss[l], XeroBalanceSheets[b], XeroListings[a]>>] :
        l \in 1..2, b \in 1..2, a \in 1..3}

\* Promise.all over the fetches, as the results were bound in the order the
\* fetches settled
fetchedAsSettled(list) ==
    [i \in 1..Len(list) |->
        list[CHOOSE j \in 1..Len(list) : list[j].at = i].report]

\* Promise.all over the fetches once all have resolved: their results by
\* position in the array, whatever the order they settled in
fetched(list) == [i \in 1..Len(list) |-> list[i].report]

\* the object the QuickBooks getFinancialData returns
getFinancialData(currentPL, lastMonthPL, balanceSheet) ==
    [cashBalance |-> extractBalanceSheetMetric(balanceSheet, CashAndCashEquivalents).value,
     monthlyRevenue |-> extractMetric(lastMonthPL, TotalIncome).value,
     monthlyExpenses |-> extractMetric(lastMonthPL, TotalExpenses).value,
     profitLoss |-> lastMonthPL,
     balanceSheet |-> balanceSheet]

\* a Xero getFinancialData that read the cash from the Bank section of the
\* balance sheet
xeroGetFinancialDataCashFromSheet(profitLoss, balanceSheet, listing) ==
    IF totalCash(listing).threw THEN Throws
    ELSE Ret([cashBalance |-> xeroExtractMetric(balanceSheet, <<"B", "a", "n", "k">>).value,
              monthlyRevenue |-> xeroExtractMetric(profitLoss, Revenue).value,
              monthlyExpenses |-> xeroExtractMetric(profitLoss, Expenses).value,
              profitLoss |-> profitLoss,
              balanceSheet |-> balanceSheet])

\* the object the Xero getFinancialData returns, or the exception of
\* totalCash
xeroGetFinancialData(profitLoss, balanceSheet, listing) ==
    IF totalCash(listing).threw THEN Throws
    ELSE Ret([cashBalance |-> totalCash(listing).value,
              monthlyRevenue |-> xeroExtractMetric(profitLoss, Revenue).value,
              monthlyExpenses |-> xeroExtractMetric(profitLoss, Expenses).value,
              profitLoss |-> profitLoss,
              balanceSheet |-> balanceSheet])

\* getFinancialData of the provider's client after its Promise.all
FinancialData(provider, reports) ==
    IF provider = "quickbooks"
    THEN Ret(getFinancialData(reports[1], reports[2], reports[3]))
    ELSE xeroGetFinancialData(reports[1], reports[2], reports[3])

\* a generator call up to its await: the payload is computed and the
\* narrative call is in flight; texts are the pieces of text, other than
\* formatted numbers, that the prompt template interpolates
Call(type, title, data, texts) ==
    [type |-> type, title |-> title, data |-> data, texts |-> texts, state |-> "pending",
     result |-> NoInsight]

CashRunwayCall(m) == Call("cash_runway", "Cash Runway", CashRunwayData(m), <<>>)
BurnRateCall(m) == Call("burn_rate", "Monthly Spending", BurnRateData(m), <<>>)
ProfitMarginCall(m) == Call("profit_margin", "Profit Margin", ProfitMarginData(m), <<>>)
HiringImpactCall(m, annualSalary) ==
    Call("hiring_impact", HiringTitle(annualSalary), HiringImpactData(m, annualSalary), <<>>)

\* a generateCustomInsight that put a prefix before the question in the title
CustomCallRetitled(m, question) == Call("custom", "Q: " \o question, m, <<question>>)

CustomCall(m, question) == Call("custom", question, m, <<question>>)

\* Promise.all over the calls, as the insights were assembled in the order
\* the calls settled
allInsightsAsSettled(calls, order) == [i \in 1..Len(calls) |-> calls[order[i]].result]

\* Promise.all over the calls once all have returned: their results by
\* position in the array, whatever the order they settled in
allInsights(calls, order) == [i \in 1..Len(calls) |-> calls[i].result]

\* the row inserted into the insights table for an insight
InsightRow(ins) ==
    [insight_type |-> ins.type, insight_title |-> ins.title,
     insight_text |-> ins.text, data_snapshot |-> ins.data]

\* the insights table: the rows whose insert succeeded
InsightsTable ==
    LET Ok(a) == a.ok
        done == SelectSeq(inserts, Ok)
    IN  [i \in 1..Len(done) |-> done[i].row]

\* a handler that looked up the connections without asking who the caller is
PostUnauthenticated ==
    /\ pc = "received"
    /\ IF Len(req.connections) = 0
       THEN /\ http' = ErrorResponse(400, "No accounting software connected")
            /\ pc' = "done"
            /\ UNCHANGED fetches
       ELSE IF req.connections[1] \in Supported
       THEN /\ fetches' = [i \in 1..Len(FetchRoles(req.connections[1])) |-> PendingFetch]
            /\ pc' = "fetching"
            /\ UNCHANGED http
       ELSE /\ http' = ErrorResponse(400, "Unsupported provider")
            /\ pc' = "done"
            /\ UNCHANGED fetches
    /\ UNCHANGED <<req, books, narr, completed, results, inserts>>
    /\ UNCHANGED genVars
    /\ UNCHANGED extractVars
    /\ UNCHANGED dateVars
    /\ UNCHANGED oauthVars

\* the handler up to its first await on the accounting provider: the session,
\* the body, the connections of the user, and the provider of the first one
Post ==
    /\ pc = "received"
    /\ IF ~req.authenticated
       THEN /\ http' = ErrorResponse(401, "Unauthorized")
            /\ pc' = "done"
            /\ UNCHANGED fetches
       ELSE IF Len(req.connections) = 0
       THEN /\ http' = ErrorResponse(400, "No accounting software connected")
            /\ pc' = "done"
            /\ UNCHANGED fetches
       ELSE IF req.connections[1] \in Supported
       THEN /\ fetches' = [i \in 1..Len(FetchRoles(req.connections[1])) |-> PendingFetch]
            /\ pc' = "fetching"
            /\ UNCHANGED http
       ELSE /\ http' = ErrorResponse(400, "Unsupported provider")
            /\ pc' = "done"
            /\ UNCHANGED fetches
    /\ UNCHANGED <<req, books, narr, completed, results, inserts>>
    /\ UNCHANGED genVars
    /\ UNCHANGED extractVars
    /\ UNCHANGED dateVars
    /\ UNCHANGED oauthVars

\* the number of fetches that have settled
Settled(list) == Cardinality({i \in 1..Len(list) : list[i].state # "pending"})

\* a fetch answers with what the provider holds for it
FetchResolves(i) ==
    /\ pc = "fetching"
    /\ fetches[i].state = "pending"
    /\ fetches' = [fetches EXCEPT ![i] = [state |-> "fulfilled", at |-> Settled(fetches) + 1,
                                          report |-> books.reports[i]]]
    /\ UNCHANGED <<pc, req, books, narr, completed, results, inserts, http>>
    /\ UNCHANGED genVars
    /\ UNCHANGED extractVars
    /\ UNCHANGED dateVars
    /\ UNCHANGED oauthVars

\* a fetch fails, had getFinancialData gone on with an empty report in place
\* of the one that is missing
FetchRejectsAbsorbed(i) ==
    /\ pc = "fetching"
    /\ fetches[i].state = "pending"
    /\ fetches' = [fetches EXCEPT ![i] = [state |-> "rejected", at |-> Settled(fetches) + 1,
                                          report |-> NullReport]]
    /\ IF \A j \in 1..Len(fetches) : j # i => fetches[j].state # "pending"
       THEN /\ metrics' = [cashBalance |-> Num(0), monthlyRevenue |-> Num(0),
                           monthlyExpenses |-> Num(0), profitLoss |-> NullReport,
                           balanceSheet |-> NullReport]
            /\ snapshot' = metrics'
            /\ pc' = "built"
       ELSE UNCHANGED <<metrics, snapshot, pc>>
    /\ UNCHANGED <<req, books, narr, completed, results, inserts, http>>
    /\ UNCHANGED <<response, insight, firstHiring, prompt, callCount>>
    /\ UNCHANGED extractVars
    /\ UNCHANGED dateVars
    /\ UNCHANGED oauthVars

\* a fetch fails: getFinancialData rejects and the handler's catch answers
FetchRejects(i) ==
    /\ pc = "fetching"
    /\ fetches[i].state = "pending"
    /\ fetches' = [fetches EXCEPT ![i] = [state |-> "rejected", at |-> Settled(fetches) + 1,
                                          report |-> NullReport]]
    /\ http' = Failed
    /\ pc' = "done"
    /\ UNCHANGED <<req, books, narr, completed, results, inserts>>
    /\ UNCHANGED genVars
    /\ UNCHANGED extractVars
    /\ UNCHANGED dateVars
    /\ UNCHANGED oauthVars

\* a getFinancialData that went on as soon as the first two of its fetches
\* had resolved, with an empty report in place of the third
BuildFinancialDataEarly ==
    /\ pc = "fetching"
    /\ \A i \in 1..(Len(fetches) - 1) : fetches[i].state = "fulfilled"
    /\ fetches[Len(fetches)].state # "rejected"
    /\ LET built == FinancialData(req.connections[1], fetched(fetches))
       IN  IF built.threw
           THEN /\ http' = Failed
                /\ pc' = "done"
                /\ UNCHANGED <<metrics, snapshot>>
           ELSE /\ metrics' = built.value
                /\ snapshot' = built.value
                /\ pc' = "built"
                /\ UNCHANGED http
    /\ UNCHANGED <<req, books, fetches, narr, completed, results, inserts>>
    /\ UNCHANGED <<response, insight, firstHiring, prompt, callCount>>
    /\ UNCHANGED extractVars
    /\ UNCHANGED dateVars
    /\ UNCHANGED oauthVars

\* the three fetches have resolved: getFinancialData extracts the metrics and
\* returns its record, or throws into the handler's catch
BuildFinancialData ==
    /\ pc = "fetching"
    /\ \A i \in 1..Len(fetches) : fetches[i].state = "fulfilled"
    /\ LET built == FinancialData(req.connections[1], fetched(fetches))
       IN  IF built.threw
           THEN /\ http' = Failed
                /\ pc' = "done"
                /\ UNCHANGED <<metrics, snapshot>>
           ELSE /\ metrics' = built.value
                /\ snapshot' = built.value
                /\ pc' = "built"
                /\ UNCHANGED http
    /\ UNCHANGED <<req, books, fetches, narr, completed, results, inserts>>
    /\ UNCHANGED <<response, insight, firstHiring, prompt, callCount>>
    /\ UNCHANGED extractVars
    /\ UNCHANGED dateVars
    /\ UNCHANGED oauthVars

\* the handler has the financial data: its switch starts the generator calls
\* of the requested type, or answers 400
GenerateInsights ==
    /\ pc = "built"
    /\ LET financialData == metrics
           Start(calls) ==
               /\ narr' = calls
               /\ pc' = "narrating"
               /\ UNCHANGED http
           Refuse(error) ==
               /\ http' = ErrorResponse(400, error)
               /\ pc' = "done"
               /\ UNCHANGED narr
       IN  CASE req.insightType = "cash_runway" -> Start(<<CashRunwayCall(financialData)>>)
             []  req.insightType = "burn_rate" -> Start(<<BurnRateCall(financialData)>>)
             []  req.insightType = "profit_margin" ->
                     Start(<<ProfitMarginCall(financialData)>>)
             []  req.insightType = "hiring_impact" ->
                     IF Falsy(req.annualSalary)
                     THEN Refuse("Annual salary required for hiring impact")
                     ELSE Start(<<HiringImpactCall(financialData, req.annualSalary.n)>>)
             []  req.insightType = "custom" ->
                     IF Falsy(req.question)
                     THEN Refuse("Question required for custom insight")
                     ELSE Start(<<CustomCall(financialData, req.question.s)>>)
             []  req.insightType = "all" ->
                     Start(<<CashRunwayCall(financialData), BurnRateCall(financialData),
                             ProfitMarginCall(financialData)>>)
             []  OTHER -> Refuse("Invalid insight type")
    /\ fetches' = <<>>
    /\ UNCHANGED <<req, books, completed, results, inserts>>
    /\ UNCHANGED genVars
    /\ UNCHANGED extractVars
    /\ UNCHANGED dateVars
    /\ UNCHANGED oauthVars

\* a narrative call resolves and its generator returns an insight
NarrativeReturns(i) ==
    /\ pc = "narrating"
    /\ narr[i].state = "pending"
    /\ \E r \in Responses :
          LET result == Package(narr[i].type, narr[i].title, r, narr[i].data)
          IN  /\ result.status = "returned"
              /\ narr' = [narr EXCEPT ![i] = [@ EXCEPT !.state = "fulfilled",
                                                       !.result = result]]
    /\ completed' = Append(completed, i)
    /\ UNCHANGED <<pc, req, books, fetches, results, inserts, http>>
    /\ UNCHANGED genVars
    /\ UNCHANGED extractVars
    /\ UNCHANGED dateVars
    /\ UNCHANGED oauthVars

\* a narrative call makes its generator throw: the await of the handler
\* rejects and the handler's catch answers
NarrativeThrows(i) ==
    /\ pc = "narrating"
    /\ narr[i].state = "pending"
    /\ \E r \in Responses :
          LET result == Package(narr[i].type, narr[i].title, r, narr[i].data)
          IN  /\ result.status = "thrown"
              /\ narr' = [narr EXCEPT ![i] = [@ EXCEPT !.state = "rejected",
                                                       !.result = result]]
    /\ completed' = Append(completed, i)
    /\ http' = Failed
    /\ pc' = "done"
    /\ UNCHANGED <<req, books, fetches, results, inserts>>
    /\ UNCHANGED genVars
    /\ UNCHANGED extractVars
    /\ UNCHANGED dateVars
    /\ UNCHANGED oauthVars

\* every generator call of the request has returned: the await of the
\* handler resolves
InsightsAwaited ==
    /\ pc = "narrating"
    /\ \A i \in 1..Len(narr) : narr[i].state = "fulfilled"
    /\ results' = allInsights(narr, completed)
    /\ pc' = "saving"
    /\ UNCHANGED <<req, books, fetches, narr, completed, inserts, http>>
    /\ UNCHANGED genVars
    /\ UNCHANGED extractVars
    /\ UNCHANGED dateVars
    /\ UNCHANGED oauthVars

\* a handler that answered with the failure response when the insert failed
SaveInsightOrFail ==
    /\ pc = "saving"
    /\ req.insightType # "all"
    /\ \E ok \in BOOLEAN :
          /\ inserts' = Append(inserts, [row |-> InsightRow(results[1]), ok |-> ok])
          /\ http' = IF ok THEN InsightResponse(results[1]) ELSE Failed
    /\ pc' = "done"
    /\ UNCHANGED <<req, books, fetches, narr, completed, results>>
    /\ UNCHANGED genVars
    /\ UNCHANGED extractVars
    /\ UNCHANGED dateVars
    /\ UNCHANGED oauthVars

\* the insert of a single insight, whose error is only logged, and the answer
SaveInsight ==
    /\ pc = "saving"
    /\ req.insightType # "all"
    /\ \E ok \in BOOLEAN :
          inserts' = Append(inserts, [row |-> InsightRow(results[1]), ok |-> ok])
    /\ http' = InsightResponse(results[1])
    /\ pc' = "done"
    /\ UNCHANGED <<req, books, fetches, narr, completed, results>>
    /\ UNCHANGED genVars
    /\ UNCHANGED extractVars
    /\ UNCHANGED dateVars
    /\ UNCHANGED oauthVars

\* one turn of the loop over allInsights, whose insert is awaited and its
\* outcome not looked at; after the last turn, the answer
SaveNextOfAll ==
    /\ pc = "saving"
    /\ req.insightType = "all"
    /\ LET k == Len(inserts) + 1
       IN  /\ \E ok \in BOOLEAN :
                 inserts' = Append(inserts, [row |-> InsightRow(results[k]), ok |-> ok])
           /\ IF k = Len(results)
              THEN /\ http' = InsightsResponse(results)
                   /\ pc' = "done"
              ELSE UNCHANGED <<pc, http>>
    /\ UNCHANGED <<req, books, fetches, narr, completed, results>>
    /\ UNCHANGED genVars
    /\ UNCHANGED extractVars
    /\ UNCHANGED dateVars
    /\ UNCHANGED oauthVars

InitReq ==
    /\ pc = "received"
    /\ req \in Requests
    /\ books \in IF ~req.authenticated \/ Len(req.connections) = 0 THEN {NoBooks}
                ELSE IF req.connections[1] = "quickbooks" THEN QuickBooksLedgers
                ELSE IF req.connections[1] = "xero" THEN XeroLedgers
                ELSE {NoBooks}
    /\ fetches = <<>>
    /\ narr = <<>>
    /\ completed = <<>>
    /\ results = <<>>
    /\ inserts = <<>>
    /\ http = NoHttp
    /\ metrics = IdleMetrics
    /\ snapshot = IdleMetrics
    /\ response = NoResponse
    /\ insight = NoInsight
    /\ prompt = NoPrompt
    /\ callCount = 0
    /\ firstHiring = NoHiring
    /\ report = NoReport
    /\ metricName = <<>>
    /\ extracted = NoExtract
    /\ bankAccounts = NoListing
    /\ DatesIdle
    /\ OAuthIdle

NextReq ==
    \/ Post
    \/ \E i \in 1..Len(fetches) : FetchResolves(i)
    \/ \E i \in 1..Len(fetches) : FetchRejects(i)
    \/ BuildFinancialData
    \/ GenerateInsights
    \/ \E i \in 1..Len(narr) : NarrativeReturns(i)
    \/ \E i \in 1..Len(narr) : NarrativeThrows(i)
    \/ InsightsAwaited
    \/ SaveInsight
    \/ SaveNextOfAll

SpecReq == InitReq /\ [][NextReq]_vars

----------------------------------------------------------------------------
(***************************************************************************)
(* The dates of getFinancialData, in both clients.  A Date is the number   *)
(* of minutes between the epoch and its instant, in UTC.  The local-time   *)
(* getters and the constructor new Date(year, month, date) work on the     *)
(* instant shifted by the server's offset from UTC; toISOString works on   *)
(* the instant itself.  The offset is in minutes east of UTC and is the    *)
(* same for every date of one request (no daylight-saving change between   *)
(* today and the boundaries).  The calendar is computed as ECMAScript      *)
(* computes it (Day, DayFromYear, YearFromTime, MonthFromTime,             *)
(* DateFromTime, MakeDay).                                                 *)
(***************************************************************************)
MaxYears == 2

MinutesPerDay == 24 * 60
Years == 2023 .. (2023 + MaxYears - 1)
YearRange == (2023 - 1) .. (2023 + MaxYears)
Months == 0 .. 11
Hours == {0, 11, 23}
Offsets == {-720, -300, 0, 60, 330, 840}

Day(t) == t \div MinutesPerDay
TimeWithinDay(t) == t % MinutesPerDay

DaysInYear(y) ==
    IF y % 4 # 0 THEN 365
    ELSE IF y % 100 # 0 THEN 366
    ELSE IF y % 400 # 0 THEN 365
    ELSE 366

DayFromYear(y) ==
    365 * (y - 1970) + ((y - 1969) \div 4) - ((y - 1901) \div 100) + ((y - 1601) \div 400)

InLeapYear(y) == DaysInYear(y) = 366

DaysInMonth(m, leap) ==
    IF m = 1 THEN (IF leap THEN 29 ELSE 28)
    ELSE IF m \in {3, 5, 8, 10} THEN 30
    ELSE 31

RECURSIVE DaysBefore(_, _)
DaysBefore(m, leap) ==
    IF m = 0 THEN 0 ELSE DaysBefore(m - 1, leap) + DaysInMonth(m - 1, leap)

YearFromTime(t) ==
    CHOOSE y \in YearRange : DayFromYear(y) <= Day(t) /\ Day(t) < DayFromYear(y + 1)

DayWithinYear(t) == Day(t) - DayFromYear(YearFromTime(t))

MonthFromTime(t) ==
    LET leap == InLeapYear(YearFromTime(t))
    IN  CHOOSE m \in Months :
            /\ DaysBefore(m, leap) <= DayWithinYear(t)
            /\ DayWithinYear(t) < DaysBefore(m + 1, leap)

DateFromTime(t) ==
    DayWithinYear(t) - DaysBefore(MonthFromTime(t), InLeapYear(YearFromTime(t))) + 1

HourFromTime(t) == TimeWithinDay(t) \div 60
MinFromTime(t) == TimeWithinDay(t) % 60

\* MakeDay: a month outside 0..11 carries into the year, a date outside the
\* month carries into the neighbouring month
MakeDay(year, month, date) ==
    LET ym == year + (month \div 12)
        mn == month % 12
    IN  DayFromYear(ym) + DaysBefore(mn, InLeapYear(ym)) + date - 1

LocalTime(t, offset) == t + offset
UTC(t, offset) == t - offset

\* new Date(year, month, date): midnight of that day in local time
NewDate(year, month, date, offset) ==
    UTC(MakeDay(year, month, date) * MinutesPerDay, offset)

getFullYear(t, offset) == YearFromTime(LocalTime(t, offset))
getMonth(t, offset) == MonthFromTime(LocalTime(t, offset))

DigitChar(n) == <<"0", "1", "2", "3", "4", "5", "6", "7", "8", "9">>[n + 1]

RECURSIVE PadStart(_, _)
PadStart(n, width) ==
    IF width = 0 THEN <<>> ELSE PadStart(n \div 10, width - 1) \o <<DigitChar(n % 10)>>

\* YYYY-MM-DDTHH:mm:ss.sssZ of the instant, in UTC
toISOString(t) ==
    PadStart(YearFromTime(t), 4) \o <<"-">> \o PadStart(MonthFromTime(t) + 1, 2) \o <<"-">>
        \o PadStart(DateFromTime(t), 2) \o <<"T">> \o PadStart(HourFromTime(t), 2) \o <<":">>
        \o PadStart(MinFromTime(t), 2) \o <<":", "0", "0", ".", "0", "0", "0", "Z">>

\* str.split('T')[0]
BeforeT(str) ==
    IF \E i \in 1..Len(str) : str[i] = "T"
    THEN SubSeq(str, 1, (CHOOSE i \in 1..Len(str) :
                            str[i] = "T" /\ \A j \in 1..(i - 1) : str[j] # "T") - 1)
    ELSE str

formatDate(date) == BeforeT(toISOString(date))

\* the instants a request can arrive at, and the offsets a server can have
Instants ==
    { (MakeDay(y, m, d) * MinutesPerDay) + (h * 60) :
        y \in Years, m \in Months, d \in {1, 15, 28}, h \in Hours }
    \cup { (MakeDay(y, m + 1, 0) * MinutesPerDay) + (h * 60) :
        y \in Years, m \in Months, h \in Hours }
Clocks == [t : Instants, offset : Offsets]

\* QuickBooksClient.getFinancialData up to its fetches
QuickBooksDates ==
    /\ ranges = NoRanges
    /\ today \in Clocks
    /\ LET year == getFullYear(today.t, today.offset)
           month == getMonth(today.t, today.offset)
           startOfMonth == NewDate(year, month, 1, today.offset)
           startOfLastMonth == NewDate(year, month - 1, 1, today.offset)
           endOfLastMonth == NewDate(year, month, 0, today.offset)
       IN  ranges' = [client |-> "quickbooks",
                      currentPL |-> <<formatDate(startOfMonth), formatDate(today.t)>>,
                      lastMonthPL |-> <<formatDate(startOfLastMonth),
                                        formatDate(endOfLastMonth)>>,
                      balanceSheet |-> <<formatDate(today.t)>>]
    /\ UNCHANGED today
    /\ UNCHANGED genVars
    /\ UNCHANGED extractVars
    /\ UNCHANGED routeVars
    /\ UNCHANGED oauthVars

\* XeroClient.getFinancialData up to its fetches
XeroDates ==
    /\ ranges = NoRanges
    /\ today \in Clocks
    /\ LET year == getFullYear(today.t, today.offset)
           month == getMonth(today.t, today.offset)
           startOfLastMonth == NewDate(year, month - 1, 1, today.offset)
           endOfLastMonth == NewDate(year, month, 0, today.offset)
       IN  ranges' = [client |-> "xero",
                      currentPL |-> <<>>,
                      lastMonthPL |-> <<formatDate(startOfLastMonth),
                                        formatDate(endOfLastMonth)>>,
                      balanceSheet |-> <<formatDate(today.t)>>]
    /\ UNCHANGED today
    /\ UNCHANGED genVars
    /\ UNCHANGED extractVars
    /\ UNCHANGED routeVars
    /\ UNCHANGED oauthVars

InitDates ==
    /\ today \in Clocks
    /\ ranges = NoRanges
    /\ metrics = IdleMetrics
    /\ snapshot = IdleMetrics
    /\ response = NoResponse
    /\ insight = NoInsight
    /\ prompt = NoPrompt
    /\ callCount = 0
    /\ firstHiring = NoHiring
    /\ report = NoReport
    /\ metricName = <<>>
    /\ extracted = NoExtract
    /\ bankAccounts = NoListing
    /\ RouteIdle
    /\ OAuthIdle

NextDates ==
    \/ QuickBooksDates
    \/ XeroDates

SpecDates == InitDates /\ [][NextDates]_vars

----------------------------------------------------------------------------
(***************************************************************************)
(* The OAuth flows: the authorize routes, which issue a state value and    *)
(* set the state cookie, and the callback routes, which verify the state,  *)
(* exchange the code and store the connection.  One browser is modelled,   *)
(* with its signed-in user and one state cookie per provider; requests     *)
(* reach the callback routes with any parameters, whether the provider     *)
(* redirected the browser there or another site did.  Callback requests    *)
(* are served one after the other.                                         *)
(***************************************************************************)
MaxStates == 2
MaxCallbacks == 2

Providers == {"quickbooks", "xero"}
Users == {"alice", "bob"}

\* a query parameter or cookie value that is present
Param(s) == [given |-> TRUE, n |-> 0, s |-> s]

\* crypto.randomUUID(): a value that was never issued before
StateValue(k) == "uuid-" \o ToString(k)
IssuedStates == {Param(StateValue(k)) : k \in 1..MaxStates}

Codes == {NoParam, Param("code-1")}
States == {NoParam, Param(""), Param("forged")} \cup IssuedStates
RealmIds == {NoParam, Param("realm-1")}

Between == callback.pc \in {"idle", "done"}

\* the user signs in or out (supabase.auth)
SignIn(user) ==
    /\ Between
    /\ browser.user # user
    /\ browser' = [browser EXCEPT !.user = user]
    /\ UNCHANGED <<connectionRows, callback, issued, served>>
    /\ UNCHANGED genVars
    /\ UNCHANGED extractVars
    /\ UNCHANGED routeVars
    /\ UNCHANGED dateVars

\* GET /api/quickbooks/authorize, GET /api/xero/authorize
Authorize(provider) ==
    /\ Between
    /\ issued < MaxStates
    /\ IF browser.user = "none"
       THEN UNCHANGED <<browser, issued>>
       ELSE LET state == StateValue(issued + 1)
            IN  /\ browser' = [browser EXCEPT !.cookie[provider] = Param(state)]
                /\ issued' = issued + 1
    /\ UNCHANGED <<connectionRows, callback, served>>
    /\ UNCHANGED genVars
    /\ UNCHANGED extractVars
    /\ UNCHANGED routeVars
    /\ UNCHANGED dateVars

\* maxAge: 600
CookieExpires(provider) ==
    /\ Between
    /\ browser.cookie[provider].given
    /\ browser' = [browser EXCEPT !.cookie[provider] = NoParam]
    /\ UNCHANGED <<connectionRows, callback, issued, served>>
    /\ UNCHANGED genVars
    /\ UNCHANGED extractVars
    /\ UNCHANGED routeVars
    /\ UNCHANGED dateVars

\* the requests whose callback stored a connection
Consumed ==
    IF callback.pc = "done"
       /\ callback.redirect = "/dashboard?connected=" \o callback.provider
    THEN callback.consumed
         \cup {[provider |-> callback.provider, code |-> callback.code,
                state |-> callback.state]}
    ELSE callback.consumed

\* a state check that did not compare with the cookie
StateCheckWithoutCookie(provider, code, state, realmId) ==
    \/ Falsy(code)
    \/ Falsy(state)
    \/ (provider = "quickbooks" /\ Falsy(realmId))

\* !code || !state || !realmId || state !== storedState
StateCheckFails(provider, code, state, realmId) ==
    LET storedState == browser.cookie[provider]
    IN  \/ Falsy(code)
        \/ Falsy(state)
        \/ (provider = "quickbooks" /\ Falsy(realmId))
        \/ state # storedState

\* GET /api/quickbooks/callback, GET /api/xero/callback: the request arrives
\* and its state is verified
Callback(provider, code, state, realmId) ==
    /\ Between
    /\ served < MaxCallbacks
    /\ served' = served + 1
    /\ LET arrived == [NoCallback EXCEPT
                          !.provider = provider, !.code = code, !.state = state,
                          !.realmId = realmId,
                          !.replay = [provider |-> provider, code |-> code,
                                       state |-> state] \in Consumed,
                          !.consumed = Consumed,
                          !.rowsBefore = connectionRows,
                          !.cookieBefore = browser.cookie[provider]]
       IN  IF StateCheckFails(provider, code, state, realmId)
           THEN callback' = [arrived EXCEPT
                                !.pc = "done",
                                !.redirect = "/dashboard?error=invalid_oauth_state"]
           ELSE callback' = [arrived EXCEPT !.pc = "verified", !.trace = <<"state">>]
    /\ UNCHANGED <<browser, connectionRows, issued>>
    /\ UNCHANGED genVars
    /\ UNCHANGED extractVars
    /\ UNCHANGED routeVars
    /\ UNCHANGED dateVars

\* a callback that went on without a signed-in user
AuthenticateAnyone ==
    /\ callback.pc = "verified"
    /\ callback' = [callback EXCEPT
                       !.pc = "authenticated", !.user = browser.user,
                       !.trace = IF browser.user = "none" THEN @ ELSE Append(@, "user")]
    /\ UNCHANGED <<browser, connectionRows, issued, served>>
    /\ UNCHANGED genVars
    /\ UNCHANGED extractVars
    /\ UNCHANGED routeVars
    /\ UNCHANGED dateVars

\* supabase.auth.getUser()
Authenticate ==
    /\ callback.pc = "verified"
    /\ IF browser.user = "none"
       THEN callback' = [callback EXCEPT !.pc = "done", !.redirect = "/login"]
       ELSE callback' = [callback EXCEPT !.pc = "authenticated", !.user = browser.user,
                                         !.trace = Append(@, "user")]
    /\ UNCHANGED <<browser, connectionRows, issued, served>>
    /\ UNCHANGED genVars
    /\ UNCHANGED extractVars
    /\ UNCHANGED routeVars
    /\ UNCHANGED dateVars

\* the catch of the callback route
ConnectionFailed(provider) == "/dashboard?error=" \o provider \o "_connection_failed"

\* getTokens(code): the provider answers with tokens, or the call throws
GetTokens ==
    /\ callback.pc = "authenticated"
    /\ \E ok \in BOOLEAN :
          IF ok
          THEN callback' = [callback EXCEPT
                               !.pc = IF callback.provider = "xero" THEN "exchanged"
                                      ELSE "ready",
                               !.trace = Append(@, "tokens")]
          ELSE callback' = [callback EXCEPT
                               !.pc = "done",
                               !.trace = Append(@, "tokens failed"),
                               !.redirect = ConnectionFailed(callback.provider)]
    /\ UNCHANGED <<browser, connectionRows, issued, served>>
    /\ UNCHANGED genVars
    /\ UNCHANGED extractVars
    /\ UNCHANGED routeVars
    /\ UNCHANGED dateVars

\* getTenants(tokens.access_token) and tenants[0]?.tenantId
GetTenants ==
    /\ callback.pc = "exchanged"
    /\ \E tenants \in {"throws", "none", "one"} :
          CASE tenants = "throws" ->
                   callback' = [callback EXCEPT
                                   !.pc = "done",
                                   !.redirect = ConnectionFailed(callback.provider)]
            [] tenants = "none" ->
                   callback' = [callback EXCEPT
                                   !.pc = "done",
                                   !.redirect = "/dashboard?error=no_xero_organization"]
            [] tenants = "one" ->
                   callback' = [callback EXCEPT !.pc = "ready",
                                                !.trace = Append(@, "tenant")]
    /\ UNCHANGED <<browser, connectionRows, issued, served>>
    /\ UNCHANGED genVars
    /\ UNCHANGED extractVars
    /\ UNCHANGED routeVars
    /\ UNCHANGED dateVars

\* the row of an upsert without id
ConnectionRow(id, user, provider, code) ==
    [id |-> id, user_id |-> user, provider |-> provider, access_token |-> "token-for-" \o code.s]

\* UNIQUE(user_id, provider)
UniqueViolation(rows, user, provider) ==
    \E i \in 1..Len(rows) : rows[i].user_id = user /\ rows[i].provider = provider

\* a connections table without its unique constraint
UpsertUnconstrained(rows, user, provider, code) ==
    [error |-> FALSE, rows |-> Append(rows, ConnectionRow(Len(rows) + 1, user, provider, code))]

\* supabase.from('connections').upsert(row): the row has no id, so it is
\* inserted under a new one, and the insert fails when the user has a
\* connection to the provider already
Upsert(rows, user, provider, code) ==
    IF UniqueViolation(rows, user, provider)
    THEN [error |-> TRUE, rows |-> rows]
    ELSE [error |-> FALSE,
          rows |-> Append(rows, ConnectionRow(Len(rows) + 1, user, provider, code))]

\* a callback whose response left the state cookie in place
StoreConnectionKeepingCookie ==
    /\ callback.pc = "ready"
    /\ LET stored == Upsert(connectionRows, callback.user, callback.provider, callback.code)
       IN  /\ connectionRows' = stored.rows
           /\ callback' = [callback EXCEPT
                              !.pc = "done",
                              !.trace = Append(@, IF stored.error THEN "upsert failed"
                                                  ELSE "upsert"),
                              !.redirect = IF stored.error
                                           THEN "/dashboard?error=database_error"
                                           ELSE "/dashboard?connected=" \o callback.provider]
           /\ UNCHANGED browser
    /\ UNCHANGED <<issued, served>>
    /\ UNCHANGED genVars
    /\ UNCHANGED extractVars
    /\ UNCHANGED routeVars
    /\ UNCHANGED dateVars

\* the upsert of the connection and the response: on an error the redirect
\* to database_error, else the redirect to the dashboard, which deletes the
\* state cookie
StoreConnection ==
    /\ callback.pc = "ready"
    /\ LET stored == Upsert(connectionRows, callback.user, callback.provider, callback.code)
       IN  /\ connectionRows' = stored.rows
           /\ callback' = [callback EXCEPT
                              !.pc = "done",
                              !.trace = Append(@, IF stored.error THEN "upsert failed"
                                                  ELSE "upsert"),
                              !.redirect = IF stored.error
                                           THEN "/dashboard?error=database_error"
                                           ELSE "/dashboard?connected=" \o callback.provider]
           /\ IF stored.error
              THEN UNCHANGED browser
              ELSE browser' = [browser EXCEPT !.cookie[callback.provider] = NoParam]
    /\ UNCHANGED <<issued, served>>
    /\ UNCHANGED genVars
    /\ UNCHANGED extractVars
    /\ UNCHANGED routeVars
    /\ UNCHANGED dateVars

InitOAuth ==
    /\ browser \in {[NoBrowser EXCEPT !.user = u] : u \in Users \cup {"none"}}
    /\ connectionRows = <<>>
    /\ callback = NoCallback
    /\ issued = 0
    /\ served = 0
    /\ metrics = IdleMetrics
    /\ snapshot = IdleMetrics
    /\ response = NoResponse
    /\ insight = NoInsight
    /\ prompt = NoPrompt
    /\ callCount = 0
    /\ firstHiring = NoHiring
    /\ report = NoReport
    /\ metricName = <<>>
    /\ extracted = NoExtract
    /\ bankAccounts = NoListing
    /\ RouteIdle
    /\ DatesIdle

NextOAuth ==
    \/ \E user \in Users \cup {"none"} : SignIn(user)
    \/ \E provider \in Providers : Authorize(provider)
    \/ \E provider \in Providers : CookieExpires(provider)
    \/ \E provider \in Providers, code \in Codes, state \in States, realmId \in RealmIds :
          Callback(provider, code, state, realmId)
    \/ Authenticate
    \/ GetTokens
    \/ GetTenants
    \/ StoreConnection

SpecOAuth == InitOAuth /\ [][NextOAuth]_vars

----------------------------------------------------------------------------
(* Properties of the derivations, checked under SpecGen *)

Returned(type) == insight.status = "returned" /\ insight.type = type

\* expenses - revenue of the metrics, as numerator over a positive denominator
BurnNum(m) == m.monthlyExpenses.n * m.monthlyRevenue.d
              - m.monthlyRevenue.n * m.monthlyExpenses.d
BurnDen(m) == m.monthlyExpenses.d * m.monthlyRevenue.d
BurnIsNumber(m) == ~m.monthlyExpenses.nan /\ ~m.monthlyRevenue.nan

\* the same with annualSalary / 12 added to the expenses
NewBurnNum(m, salary) == 12 * BurnNum(m) + salary * BurnDen(m)
NewBurnDen(m) == 12 * BurnDen(m)

\* q is the integer with q <= cash / (num/den) < q + 1, for num, den > 0
IsFloorOfQuotient(q, cash, num, den) ==
    IF cash.nan THEN q.nan
    ELSE /\ ~q.nan
         /\ q.d = 1
         /\ q.n * num * cash.d <= cash.n * den
         /\ cash.n * den < (q.n + 1) * num * cash.d

\* x is the number num/den
IsRatio(x, num, den) == ~x.nan /\ x.n * den = num * x.d

\* C1: whenever expenses - revenue <= 0, the runway of a cash_runway result is
\* 999 whatever the cash balance is; in a hiring_impact result currentRunway is
\* 999 when the current net burn is <= 0 and newRunway is 999 when the net burn
\* with the salary added is <= 0.
C1_SentinelWhenNotBurning ==
    /\ (Returned("cash_runway") /\ BurnIsNumber(metrics) /\ BurnNum(metrics) <= 0)
          => insight.data.runwayMonths = Num(999)
    /\ (Returned("hiring_impact") /\ BurnIsNumber(metrics) /\ BurnNum(metrics) <= 0)
          => insight.data.currentRunway = Num(999)
    /\ (Returned("hiring_impact") /\ BurnIsNumber(metrics)
           /\ NewBurnNum(metrics, insight.data.annualSalary.n) <= 0)
          => insight.data.newRunway = Num(999)

\* a break-even business with a negative cash balance was given runway 999
C1_Witness ==
    /\ Returned("cash_runway")
    /\ BurnIsNumber(metrics) /\ BurnNum(metrics) = 0
    /\ metrics.cashBalance = Num(-1)
    /\ insight.data.runwayMonths = Num(999)

\* C2: whenever netBurn = expenses - revenue > 0, the runwayMonths of the
\* cash_runway payload is floor(cashBalance / netBurn) and the netBurn of the
\* payload is expenses - revenue.
C2_RunwayIsFloor ==
    (Returned("cash_runway") /\ BurnIsNumber(metrics) /\ BurnNum(metrics) > 0)
       => /\ IsFloorOfQuotient(insight.data.runwayMonths, metrics.cashBalance,
                               BurnNum(metrics), BurnDen(metrics))
          /\ IsRatio(insight.data.netBurn, BurnNum(metrics), BurnDen(metrics))

\* cash 3 at a net burn of 2 a month: one whole month of runway
C2_Witness ==
    /\ Returned("cash_runway")
    /\ metrics.cashBalance = Num(3)
    /\ insight.data.netBurn = Num(2)
    /\ insight.data.runwayMonths = Num(1)

\* (revenue - expenses) / revenue * 100, for revenue # 0
IsMarginOf(x, m) ==
    IF m.monthlyExpenses.nan THEN x.nan
    ELSE /\ ~x.nan
         /\ x.n * m.monthlyExpenses.d * m.monthlyRevenue.n
               = 100 * (-BurnNum(m)) * x.d

\* C3 as stated: the profitMargin of the payload is 0 when revenue = 0 and
\* (revenue - expenses) / revenue * 100 for every other revenue.
C3_MarginForEveryRevenue ==
    (Returned("profit_margin") /\ ~metrics.monthlyRevenue.nan)
       => IF metrics.monthlyRevenue.n = 0
          THEN insight.data.profitMargin = Num(0)
          ELSE IsMarginOf(insight.data.profitMargin, metrics)

\* C3 amended: the profitMargin of the payload is 0 whenever revenue is not
\* greater than 0 (zero, negative or NaN) and (revenue - expenses) / revenue
\* * 100 whenever revenue > 0.
C3_MarginForPositiveRevenue ==
    Returned("profit_margin")
       => IF ~metrics.monthlyRevenue.nan /\ metrics.monthlyRevenue.n > 0
          THEN IsMarginOf(insight.data.profitMargin, metrics)
          ELSE insight.data.profitMargin = Num(0)

\* revenue 2, expenses 3/2: a margin of 25 percent
C3_Witness ==
    /\ Returned("profit_margin")
    /\ metrics.monthlyRevenue = Num(2)
    /\ metrics.monthlyExpenses = Norm(3, 2)
    /\ insight.data.profitMargin = Num(25)

\* C4: generateHiringImpact leaves the metrics object as it was built, and
\* every call with the salary of the first call returns the first call's
\* {currentRunway, newRunway}.
C4_HiringNonMutating ==
    /\ metrics = snapshot
    /\ (Returned("hiring_impact") /\ firstHiring.calls > 0
           /\ insight.data.annualSalary = Num(firstHiring.salary))
          => /\ insight.data.currentRunway = firstHiring.currentRunway
             /\ insight.data.newRunway = firstHiring.newRunway

\* a second call with the first call's salary, the hire shortening the runway
C4_Witness ==
    /\ Returned("hiring_impact")
    /\ firstHiring.calls = 2
    /\ insight.data.annualSalary = Num(firstHiring.salary)
    /\ firstHiring.currentRunway # firstHiring.newRunway

\* the runway rule: 999 unless the burn num/den is a number > 0
IsRunwayOf(q, cash, isNumber, num, den) ==
    IF isNumber /\ num > 0 THEN IsFloorOfQuotient(q, cash, num, den)
    ELSE q = Num(999)

\* C5: in a hiring_impact result currentRunway is the runway rule applied to
\* the metrics, newRunway the rule applied with expenses + annualSalary / 12,
\* monthlyCost is annualSalary / 12 and newMonthlyExpenses is that sum.
C5_HiringOverlay ==
    Returned("hiring_impact")
       => LET d == insight.data
              salary == d.annualSalary.n
              e == metrics.monthlyExpenses
          IN  /\ IsRunwayOf(d.currentRunway, metrics.cashBalance,
                            BurnIsNumber(metrics), BurnNum(metrics), BurnDen(metrics))
              /\ IsRunwayOf(d.newRunway, metrics.cashBalance, BurnIsNumber(metrics),
                            NewBurnNum(metrics, salary), NewBurnDen(metrics))
              /\ IsRatio(d.monthlyCost, salary, 12)
              /\ IF e.nan THEN d.newMonthlyExpenses.nan
                 ELSE IsRatio(d.newMonthlyExpenses, 12 * e.n + salary * e.d, 12 * e.d)
              /\ d.currentMonthlyExpenses = e

\* a break-even business hiring at 6 a year: from 999 to 3 / (1/2) = 6 months
C5_Witness ==
    /\ Returned("hiring_impact")
    /\ metrics.cashBalance = Num(3)
    /\ insight.data.monthlyCost = Norm(1, 2)
    /\ insight.data.currentRunway = Num(999)
    /\ insight.data.newRunway = Num(6)

\* the completion of the last call carried a null or empty content
EmptyCompletion ==
    /\ response.ok
    /\ Len(response.choices) > 0
    /\ (response.choices[1].content.null \/ response.choices[1].content.s = "")

\* the payload carries the fields of its kind, its inputs those of the metrics
PayloadOfKind ==
    LET d == insight.data
    IN  CASE insight.type = "cash_runway" ->
               /\ DOMAIN d = {"cashBalance", "monthlyRevenue", "monthlyExpenses",
                              "netBurn", "runwayMonths"}
               /\ d.cashBalance = metrics.cashBalance
               /\ d.monthlyRevenue = metrics.monthlyRevenue
               /\ d.monthlyExpenses = metrics.monthlyExpenses
          [] insight.type = "burn_rate" ->
               /\ DOMAIN d = {"monthlyRevenue", "monthlyExpenses", "netBurn"}
               /\ d.monthlyRevenue = metrics.monthlyRevenue
               /\ d.monthlyExpenses = metrics.monthlyExpenses
          [] insight.type = "profit_margin" ->
               /\ DOMAIN d = {"monthlyRevenue", "monthlyExpenses", "profitMargin"}
               /\ d.monthlyRevenue = metrics.monthlyRevenue
               /\ d.monthlyExpenses = metrics.monthlyExpenses
          [] insight.type = "hiring_impact" ->
               /\ DOMAIN d = {"currentRunway", "newRunway", "annualSalary",
                              "monthlyCost", "currentMonthlyExpenses",
                              "newMonthlyExpenses"}
               /\ d.currentMonthlyExpenses = metrics.monthlyExpenses
          [] insight.type = "custom" -> d = metrics

\* C8: for every insight kind, a completion whose content is empty or null
\* gives a result whose text is 'Unable to generate insight.' and whose data
\* payload is the one of its kind, as with a narrative.
C8_EmptyContentFallsBack ==
    (insight.status = "returned" /\ EmptyCompletion)
       => /\ insight.text = "Unable to generate insight."
          /\ PayloadOfKind

\* an empty string (not null) came back for a custom question
C8_Witness ==
    /\ Returned("custom")
    /\ response = Completion(Text(""))
    /\ insight.text = "Unable to generate insight."
    /\ insight.data = metrics

----------------------------------------------------------------------------
(* Properties of the QuickBooks extractors, checked under SpecExtract *)

TopRowsOf(rep) == rep.Rows.Row.elems
ChildRowsOf(row) == row.Rows.Row.elems

\* the row is an object whose Header.ColData[0].value is the name
CarriesHeaderLabel(row, name) ==
    /\ row.k = "obj"
    /\ row.Header.k = "obj"
    /\ row.Header.ColData.k = "array"
    /\ Len(row.Header.ColData.cells) >= 1
    /\ row.Header.ColData.cells[1] = Cell(Str(name))

\* the row is an object whose ColData[0].value is the name
CarriesFirstCellLabel(row, name) ==
    /\ row.k = "obj"
    /\ row.ColData.k = "array"
    /\ Len(row.ColData.cells) >= 1
    /\ row.ColData.cells[1] = Cell(Str(name))

\* the number in the second cell of the row, 0 when it is missing
SecondCellNumber(row) == ParseFloat(OrZeroText(CellValue(row.ColData, 2)))

ReturnedBy(fn) == extracted.fn = fn /\ extracted.status = "returned"

\* C9: a report (malformed or not) with no row labelled with the target name
\* makes extractMetric and extractBalanceSheetMetric return exactly 0, without
\* throwing.
C9_ZeroWhenLabelMissing ==
    /\ (/\ extracted.fn = "extractMetric"
        /\ \A i \in 1..Len(TopRowsOf(report)) :
              ~CarriesHeaderLabel(TopRowsOf(report)[i], metricName))
          => (extracted.status = "returned" /\ extracted.value = Num(0))
    /\ (/\ extracted.fn = "extractBalanceSheetMetric"
        /\ \A i \in 1..Len(TopRowsOf(report)) :
              \A j \in 1..Len(ChildRowsOf(TopRowsOf(report)[i])) :
                 ~CarriesFirstCellLabel(ChildRowsOf(TopRowsOf(report)[i])[j], metricName))
          => (extracted.status = "returned" /\ extracted.value = Num(0))

\* a section whose Rows.Row cannot be iterated: the TypeError was absorbed
C9_Witness ==
    /\ ReturnedBy("extractBalanceSheetMetric")
    /\ Len(TopRowsOf(report)) = 1
    /\ TopRowsOf(report)[1].Rows.Row.k = "noniter"
    /\ extracted.value = Num(0)

\* C10 as stated: the flat extractor returns the numeric second cell of the
\* earliest top-level row whose header label equals the target name.
C10_EarliestLabelledRowWins ==
    extracted.fn = "extractMetric"
       => \A i \in 1..Len(TopRowsOf(report)) :
             (/\ CarriesHeaderLabel(TopRowsOf(report)[i], metricName)
              /\ \A j \in 1..(i - 1) :
                    ~CarriesHeaderLabel(TopRowsOf(report)[j], metricName))
                => (/\ extracted.status = "returned"
                    /\ extracted.value = SecondCellNumber(TopRowsOf(report)[i]))

\* the row counts as a match for extractMetric: it has a ColData property
\* and its header label is the name
IsFlatMatch(row, name) == CarriesHeaderLabel(row, name) /\ row.ColData.k = "array"

\* C10 amended: the flat extractor returns the numeric second cell (0 when it
\* is missing) of the earliest top-level row that has a ColData property and a
\* header label equal to the target name, whatever rows follow it; a labelled
\* row without ColData is passed over, and a null row met before any match
\* ends the search with 0.
C10_EarliestMatchWins ==
    extracted.fn = "extractMetric"
       => /\ extracted.status = "returned"
          /\ \A i \in 1..Len(TopRowsOf(report)) :
                (\A j \in 1..(i - 1) :
                    /\ ~IsFlatMatch(TopRowsOf(report)[j], metricName)
                    /\ TopRowsOf(report)[j].k # "null")
                   => /\ IsFlatMatch(TopRowsOf(report)[i], metricName)
                         => extracted.value = SecondCellNumber(TopRowsOf(report)[i])
                      /\ TopRowsOf(report)[i].k = "null"
                         => extracted.value = Num(0)

\* two rows labelled Total Income, -3 before 7: -3 is returned
C10_Witness ==
    /\ ReturnedBy("extractMetric")
    /\ metricName = TotalIncome
    /\ Len(TopRowsOf(report)) = 2
    /\ TopRowsOf(report)[1] = Line(TotalIncome, Str(<<"-", "3">>))
    /\ TopRowsOf(report)[2] = Line(TotalIncome, Str(<<"7">>))
    /\ extracted.value = Num(-3)

\* the child row j of the top-level row i
ChildAt(i, j) == ChildRowsOf(TopRowsOf(report)[i])[j]
ChildPositions ==
    UNION {{<<i, j>> : j \in 1..Len(ChildRowsOf(TopRowsOf(report)[i]))} :
              i \in 1..Len(TopRowsOf(report))}
Earlier(p, q) == p[1] < q[1] \/ (p[1] = q[1] /\ p[2] < q[2])
LabelledChild(p) == CarriesFirstCellLabel(ChildAt(p[1], p[2]), metricName)

\* C11 as stated: the balance-sheet extractor returns the numeric second cell
\* of the first child row, across the sections in document order, whose
\* first cell is the target name, and 0 when no child row carries it (rows at
\* the top level or deeper than one level do not count).
C11_FirstLabelledChildWins ==
    extracted.fn = "extractBalanceSheetMetric"
       => /\ extracted.status = "returned"
          /\ \A p \in ChildPositions :
                (LabelledChild(p) /\ \A q \in ChildPositions : Earlier(q, p) => ~LabelledChild(q))
                   => extracted.value = SecondCellNumber(ChildAt(p[1], p[2]))
          /\ (\A p \in ChildPositions : ~LabelledChild(p)) => extracted.value = Num(0)

\* what makes the traversal throw: a null top-level row, a top-level row
\* whose Rows.Row is not a list, a null child row
BrokenSection(i) ==
    \/ TopRowsOf(report)[i].k = "null"
    \/ TopRowsOf(report)[i].Rows.Row.k = "noniter"
BrokenChild(p) == ChildAt(p[1], p[2]).k = "null"

\* nothing before the top-level row i ends the search
OpenUpToSection(i) ==
    /\ \A k \in 1..(i - 1) : ~BrokenSection(k)
    /\ \A q \in ChildPositions : q[1] < i => (~BrokenChild(q) /\ ~LabelledChild(q))

\* nothing before the child row p ends the search
OpenUpToChild(p) ==
    /\ OpenUpToSection(p[1])
    /\ \A q \in ChildPositions :
          (q[1] = p[1] /\ q[2] < p[2]) => (~BrokenChild(q) /\ ~LabelledChild(q))

\* C11 amended: the balance-sheet extractor searches exactly one level down.
\* It returns the numeric second cell (0 when missing) of the first child
\* row, across the sections in document order, whose first cell is the
\* target name; rows at the top level or deeper than one level are never
\* matched; it returns 0 when no child row carries the name, and also when a
\* null row, or a top-level row whose Rows.Row is not a list, comes before
\* the first such child row.
C11_FirstChildMatchWins ==
    extracted.fn = "extractBalanceSheetMetric"
       => /\ extracted.status = "returned"
          /\ \A p \in ChildPositions :
                OpenUpToChild(p) =>
                   /\ LabelledChild(p) => extracted.value = SecondCellNumber(ChildAt(p[1], p[2]))
                   /\ BrokenChild(p) => extracted.value = Num(0)
          /\ \A i \in 1..Len(TopRowsOf(report)) :
                (OpenUpToSection(i) /\ BrokenSection(i)) => extracted.value = Num(0)
          /\ (\A p \in ChildPositions : ~LabelledChild(p)) => extracted.value = Num(0)

\* a top-level row carries Total Income (7) and so does a child row of the
\* section after it (12): 12 is returned
C11_Witness ==
    /\ ReturnedBy("extractBalanceSheetMetric")
    /\ metricName = TotalIncome
    /\ Len(TopRowsOf(report)) = 2
    /\ TopRowsOf(report)[1] = Leaf(TotalIncome, Str(<<"7">>))
    /\ TopRowsOf(report)[2] = Section(<<Leaf(TotalIncome, Str(<<"1", "2">>))>>)
    /\ extracted.value = Num(12)

----------------------------------------------------------------------------
(* Properties of the Xero extractors, checked under SpecXero *)

\* the sections of Reports[0].Rows, none when the response has no such list
XeroSectionsOf(rep) ==
    IF rep.k = "obj" /\ Len(rep.Reports.elems) > 0 THEN rep.Reports.elems[1].Rows.elems
    ELSE <<>>

Titled(section, name) == section.k = "obj" /\ section.Title = Str(name)

\* the number a row adds: its second cell's value (0 when missing or empty),
\* nothing when it has no second cell
RowValue(row) ==
    IF row.Cells.k = "array" /\ Len(row.Cells.cells) > 1
    THEN ParseFloat(OrZeroText(row.Cells.cells[2].Value))
    ELSE Num(0)

RECURSIVE SumOfRowValues(_)
SumOfRowValues(rows) ==
    IF Len(rows) = 0 THEN Num(0)
    ELSE NumAdd(SumOfRowValues(SubSeq(rows, 1, Len(rows) - 1)), RowValue(rows[Len(rows)]))

\* C12 as stated: extractMetric returns the sum of the second cell values of
\* all rows of the first section of Reports[0].Rows whose Title is the
\* section name, and 0 when no section has that Title.
C12_SumOfFirstTitledSection ==
    extracted.fn = "xeroExtractMetric"
       => /\ extracted.status = "returned"
          /\ \A i \in 1..Len(XeroSectionsOf(report)) :
                (/\ Titled(XeroSectionsOf(report)[i], metricName)
                 /\ \A j \in 1..(i - 1) : ~Titled(XeroSectionsOf(report)[j], metricName))
                   => extracted.value = SumOfRowValues(XeroSectionsOf(report)[i].Rows.elems)
          /\ (\A i \in 1..Len(XeroSectionsOf(report)) :
                 ~Titled(XeroSectionsOf(report)[i], metricName))
                => extracted.value = Num(0)

\* the section counts as a match for extractMetric: its Title is the name
\* and it has Rows
IsXeroMatch(section, name) == Titled(section, name) /\ section.Rows.k # "absent"

\* summing the rows of the section throws: Rows is not a list, a row is
\* null, or a second cell is null
BrokenRows(section) ==
    \/ section.Rows.k = "noniter"
    \/ \E r \in 1..Len(section.Rows.elems) :
          \/ section.Rows.elems[r].k = "null"
          \/ /\ Len(section.Rows.elems[r].Cells.cells) > 1
             /\ section.Rows.elems[r].Cells.cells[2].k = "nullish"

\* C12 amended: extractMetric returns the sum, over the rows that have more
\* than one cell, of the numeric second cell value (0 when the value is
\* missing or empty) of the first section of Reports[0].Rows whose Title is
\* exactly the section name and which has Rows; a section with that Title
\* but without Rows is passed over, sections with another Title contribute
\* nothing, and the result is 0 when no section matches.  It is also 0 when
\* a null section comes before the match, or when the matched section holds
\* a null row, a null second cell, or Rows that is not a list.
C12_SumOfFirstMatch ==
    extracted.fn = "xeroExtractMetric"
       => /\ extracted.status = "returned"
          /\ \A i \in 1..Len(XeroSectionsOf(report)) :
                (\A j \in 1..(i - 1) :
                    /\ ~IsXeroMatch(XeroSectionsOf(report)[j], metricName)
                    /\ XeroSectionsOf(report)[j].k # "null")
                   => /\ XeroSectionsOf(report)[i].k = "null" => extracted.value = Num(0)
                      /\ IsXeroMatch(XeroSectionsOf(report)[i], metricName)
                         => extracted.value =
                               IF BrokenRows(XeroSectionsOf(report)[i]) THEN Num(0)
                               ELSE SumOfRowValues(XeroSectionsOf(report)[i].Rows.elems)
          /\ (\A i \in 1..Len(XeroSectionsOf(report)) :
                 ~IsXeroMatch(XeroSectionsOf(report)[i], metricName))
                => extracted.value = Num(0)

\* an Expenses section, then a Revenue section of rows 1000, 2000, 500:
\* Revenue is 3500
C12_Witness ==
    /\ extracted.fn = "xeroExtractMetric"
    /\ extracted.status = "returned"
    /\ metricName = Revenue
    /\ Len(XeroSectionsOf(report)) = 2
    /\ XeroSectionsOf(report)[1].Title = Str(Expenses)
    /\ XeroSectionsOf(report)[2] = XeroSections[2]
    /\ Len(XeroSectionsOf(report)[2].Rows.elems) = 3
    /\ extracted.value = Num(3500)

----------------------------------------------------------------------------
(* Properties of the insights route, checked under SpecReq *)

Answered(type) == pc = "done" /\ req.insightType = type
TypesOf(list) == [i \in 1..Len(list) |-> list[i].type]
RowTypesOf(rows) == [i \in 1..Len(rows) |-> rows[i].insight_type]
AttemptedRows == [i \in 1..Len(inserts) |-> inserts[i].row]

\* the position of a type in the order of generateAllInsights
StandardPosition(type) == CHOOSE i \in 1..Len(Standard) : Standard[i] = type

\* the rows keep the order of generateAllInsights, with none twice
InStandardOrder(rows) ==
    \A i, j \in 1..Len(rows) :
        i < j => StandardPosition(rows[i].insight_type) < StandardPosition(rows[j].insight_type)

\* C6: a request for 'all' answered with success returns exactly three
\* insights, of the types cash_runway, burn_rate, profit_margin by position,
\* in whatever order the three narrative calls completed, and the insights
\* table then holds the three in that same order.
C6_AllInOrderAndPersisted ==
    (Answered("all") /\ http.status = 200) =>
        /\ http.shape = "insights"
        /\ TypesOf(http.insights) = Standard
        /\ RowTypesOf(InsightsTable) = Standard

\* C6: a request for 'all' answered with success returns exactly three
\* insights, of the types cash_runway, burn_rate, profit_margin by position,
\* in whatever order the three narrative calls completed; the three were
\* inserted one after the other in that same order, each as returned, and
\* the insights table holds, in that order, those whose insert succeeded.
C6_AllInOrderInsertedInOrder ==
    (Answered("all") /\ http.status = 200) =>
        /\ http.shape = "insights"
        /\ TypesOf(http.insights) = Standard
        /\ Len(completed) = Len(Standard)
        /\ \A i \in 1..Len(Standard) :
              /\ http.insights[i] = narr[i].result
              /\ http.insights[i].status = "returned"
        /\ RowTypesOf(AttemptedRows) = Standard
        /\ \A i \in 1..Len(Standard) : AttemptedRows[i] = InsightRow(http.insights[i])
        /\ InStandardOrder(InsightsTable)
        /\ \A i \in 1..Len(inserts) :
              inserts[i].ok => \E j \in 1..Len(InsightsTable) : InsightsTable[j] = inserts[i].row

\* a request for 'all' answered with success whose narrative calls completed
\* last to first, and whose three inserts succeeded
C6_Witness ==
    /\ Answered("all")
    /\ http.status = 200
    /\ completed = <<3, 2, 1>>
    /\ Len(InsightsTable) = Len(Standard)

\* the single-insight types of the switch
SingleTypes == {"cash_runway", "burn_rate", "profit_margin", "hiring_impact", "custom"}

\* C7: a request for a single insight whose narrative call fails is still
\* answered with the insight: its text is the fallback text and its payload
\* is the computed one.
C7_FallbackWhenNarrativeFails ==
    (/\ pc = "done"
     /\ req.insightType \in SingleTypes
     /\ Len(narr) = 1
     /\ narr[1].state = "rejected") =>
        /\ http.status = 200
        /\ http.shape = "insight"
        /\ Len(http.insights) = 1
        /\ http.insights[1].type = req.insightType
        /\ http.insights[1].text = Fallback
        /\ http.insights[1].data = narr[1].data

----------------------------------------------------------------------------
(* Properties of getFinancialData, checked under SpecReq *)

Provider == IF Len(req.connections) = 0 THEN "none" ELSE req.connections[1]

\* what an account adds to the cash: its balance, 0 when the balance is
\* missing or is not a number
BalanceOf(account) ==
    IF ParseFloat(account.BankAccountBalance).nan THEN Num(0)
    ELSE ParseFloat(account.BankAccountBalance)

RECURSIVE SumOfBalances(_)
SumOfBalances(accounts) ==
    IF Len(accounts) = 0 THEN Num(0)
    ELSE NumAdd(SumOfBalances(SubSeq(accounts, 1, Len(accounts) - 1)),
                BalanceOf(accounts[Len(accounts)]))

\* the value of the line of the balance sheet with the label: the second
\* cell of the first child row of a section that carries it, 0 without one
RECURSIVE LineValue(_, _, _)
LineValue(sections, i, label) ==
    IF i > Len(sections) THEN Num(0)
    ELSE LET rows == ChildRowsOf(sections[i])
             hits == {j \in 1..Len(rows) : CarriesFirstCellLabel(rows[j], label)}
         IN  IF hits = {} THEN LineValue(sections, i + 1, label)
             ELSE SecondCellNumber(rows[CHOOSE j \in hits : \A k \in hits : j <= k])

\* C13: once getFinancialData has returned, the cashBalance of a Xero user is
\* the sum of BankAccountBalance over the accounts of the listing (0 for a
\* missing or unparsable balance, 0 for an empty or absent Accounts list),
\* whatever the balance sheet holds; that of a QuickBooks user is the value of
\* the balance-sheet line 'Cash and cash equivalents'.
C13_CashSource ==
    pc = "built" =>
        /\ Provider = "xero" =>
              metrics.cashBalance = SumOfBalances(books.reports[3].Accounts.elems)
        /\ Provider = "quickbooks" =>
              metrics.cashBalance =
                 LineValue(TopRowsOf(books.reports[3]), 1, CashAndCashEquivalents)

\* a Xero user whose balance sheet shows 12 in its Bank section and whose
\* accounts hold 7, 'abc', nothing and -3: the cash is 4
C13_Witness ==
    /\ pc = "built"
    /\ Provider = "xero"
    /\ books.reports[2] = XeroBalanceSheets[1]
    /\ Len(books.reports[3].Accounts.elems) = 4
    /\ metrics.cashBalance = Num(4)

\* C14: whatever the fetched reports hold, each of cashBalance,
\* monthlyRevenue and monthlyExpenses of the record getFinancialData returns
\* is a finite number, never NaN.
C14_MetricsAreNumbers ==
    pc = "built" =>
        /\ ~metrics.cashBalance.nan
        /\ ~metrics.monthlyRevenue.nan
        /\ ~metrics.monthlyExpenses.nan

SomeFetchRejected == \E i \in 1..Len(fetches) : fetches[i].state = "rejected"

\* C15: when one of the concurrent fetches of getFinancialData fails, the
\* request ends with the failure response and without a record of metrics,
\* even a partial one; no generator call is made and no insight is inserted.
C15_FetchFailureFailsTheBuild ==
    SomeFetchRejected =>
        /\ pc = "done"
        /\ http = Failed
        /\ metrics = IdleMetrics
        /\ narr = <<>>
        /\ results = <<>>
        /\ inserts = <<>>

\* a Xero user whose reports arrived and whose bank-account listing failed
C15_Witness ==
    /\ Provider = "xero"
    /\ Len(fetches) = 3
    /\ fetches[1].state = "fulfilled"
    /\ fetches[2].state = "fulfilled"
    /\ fetches[3].state = "rejected"
    /\ pc = "done"

\* C16: in whatever order the fetches settle, the record getFinancialData
\* returns takes monthlyRevenue and monthlyExpenses from what the provider
\* holds for last month's profit and loss, not for the current month's, and
\* cashBalance from the balance sheet (QuickBooks) or the bank-account
\* listing (Xero).
C16_ResultsBoundToRoles ==
    pc = "built" =>
        /\ Provider = "quickbooks" =>
              /\ metrics.monthlyRevenue = extractMetric(books.reports[2], TotalIncome).value
              /\ metrics.monthlyExpenses = extractMetric(books.reports[2], TotalExpenses).value
              /\ metrics.profitLoss = books.reports[2]
              /\ metrics.cashBalance =
                    LineValue(TopRowsOf(books.reports[3]), 1, CashAndCashEquivalents)
              /\ metrics.balanceSheet = books.reports[3]
        /\ Provider = "xero" =>
              /\ metrics.monthlyRevenue = xeroExtractMetric(books.reports[1], Revenue).value
              /\ metrics.monthlyExpenses = xeroExtractMetric(books.reports[1], Expenses).value
              /\ metrics.profitLoss = books.reports[1]
              /\ metrics.cashBalance = SumOfBalances(books.reports[3].Accounts.elems)
              /\ metrics.balanceSheet = books.reports[2]

\* a QuickBooks user with income 7 in the current month and 12 last month:
\* last month's report arrived first, the current month's last, and the
\* revenue is 12
C16_Witness ==
    /\ pc = "built"
    /\ Provider = "quickbooks"
    /\ books.reports[1] = QuickBooksProfitAndLoss[1]
    /\ books.reports[2] = QuickBooksProfitAndLoss[2]
    /\ fetches[2].at = 1
    /\ fetches[1].at = 3
    /\ metrics.monthlyRevenue = Num(12)
    /\ metrics.monthlyExpenses = Num(7)

----------------------------------------------------------------------------
(***************************************************************************)
(* Properties of the date ranges, checked under SpecDates.                 *)
(***************************************************************************)

\* YYYY-MM-DD of a calendar day (month counted from 0, as getMonth does)
IsoDay(year, month, date) ==
    PadStart(year, 4) \o <<"-">> \o PadStart(month + 1, 2) \o <<"-">> \o PadStart(date, 2)

\* the calendar month before the month of today on the server's clock
PrecedingYear ==
    IF getMonth(today.t, today.offset) = 0
    THEN getFullYear(today.t, today.offset) - 1
    ELSE getFullYear(today.t, today.offset)
PrecedingMonth ==
    IF getMonth(today.t, today.offset) = 0 THEN 11 ELSE getMonth(today.t, today.offset) - 1

\* C17: at every instant and under every offset of the server's time zone,
\* the range sent with the prior-month profit-and-loss fetch starts on the
\* first day and ends on the last day of the calendar month that precedes
\* the month of today.
C17_PriorMonthIsWholeCalendarMonth ==
    ranges.client # "none" =>
        ranges.lastMonthPL =
            <<IsoDay(PrecedingYear, PrecedingMonth, 1),
              IsoDay(PrecedingYear, PrecedingMonth,
                     DaysInMonth(PrecedingMonth, InLeapYear(PrecedingYear)))>>

\* what holds instead: the range is the whole preceding month on a server at
\* or west of UTC; east of UTC both boundaries fall one day early
C17_PriorMonthShiftedEastOfUtc ==
    ranges.client # "none" =>
        LET first == MakeDay(PrecedingYear, PrecedingMonth, 1)
            last == MakeDay(PrecedingYear, PrecedingMonth + 1, 0)
            shift == IF today.offset > 0 THEN 1 ELSE 0
        IN  ranges.lastMonthPL =
                <<formatDate((first - shift) * MinutesPerDay),
                  formatDate((last - shift) * MinutesPerDay)>>

C17_Witness ==
    /\ ranges.client = "xero"
    /\ today.offset = 60
    /\ ranges.lastMonthPL =
           <<<<"2", "0", "2", "4", "-", "0", "2", "-", "2", "9">>,
             <<"2", "0", "2", "4", "-", "0", "3", "-", "3", "0">>>>

----------------------------------------------------------------------------
(***************************************************************************)
(* Properties of the validation and the failures of the route, checked     *)
(* under SpecReq.                                                          *)
(***************************************************************************)

\* an authenticated user whose first connection is to a supported provider
Served ==
    /\ req.authenticated
    /\ Len(req.connections) > 0
    /\ req.connections[1] \in Supported

\* for such a user: getFinancialData has returned the financial data (the
\* handler drops the fetches when it enters its switch)
FetchedAndBuilt == pc = "built" \/ (pc \notin {"received", "fetching"} /\ fetches = <<>>)

SalaryRequired == ErrorResponse(400, "Annual salary required for hiring impact")
QuestionRequired == ErrorResponse(400, "Question required for custom insight")
InvalidType == ErrorResponse(400, "Invalid insight type")

MissingSalary ==
    Served /\ req.insightType = "hiring_impact" /\ ~req.annualSalary.given

\* C18: for an authenticated user with a supported connection, every
\* hiring_impact request without annualSalary ends with 400 'Annual salary
\* required for hiring impact' and with no other error; no generator call is
\* made and nothing is inserted.
C18_MissingSalaryAlwaysRefused ==
    MissingSalary =>
        /\ narr = <<>>
        /\ inserts = <<>>
        /\ pc = "done" => http = SalaryRequired

\* C18, amended: such a request ends with 400 'Annual salary required for
\* hiring impact' once getFinancialData has returned, and with 500 'Failed to
\* generate insights' when getFinancialData threw; either way no generator
\* call is made and nothing is inserted.
C18_MissingSalaryRefusedOnceBuilt ==
    MissingSalary =>
        /\ narr = <<>>
        /\ inserts = <<>>
        /\ pc = "done" => http = IF FetchedAndBuilt THEN SalaryRequired ELSE Failed

C18_Witness ==
    /\ MissingSalary
    /\ pc = "done"
    /\ http = SalaryRequired
    /\ narr = <<>>
    /\ inserts = <<>>

CustomRequest == Served /\ req.insightType = "custom"

\* the one generator call of a custom request carries the question as it
\* came: as the title, in the prompt, and in the title of what it returns
QuestionCarried ==
    /\ Len(narr) = 1
    /\ narr[1].type = "custom"
    /\ narr[1].title = req.question.s
    /\ narr[1].texts = <<req.question.s>>
    /\ narr[1].state = "fulfilled" => narr[1].result.title = req.question.s
    /\ \A i \in 1..Len(results) : results[i].title = req.question.s
    /\ \A i \in 1..Len(inserts) : inserts[i].row.insight_title = req.question.s
    /\ http.shape = "insight" => http.insights[1].title = req.question.s

\* C19: a custom request whose question is absent or empty ends with 400
\* 'Question required for custom insight', without a generator call or an
\* insert; with a non-empty question it proceeds to generateCustomInsight,
\* which gets the question unmodified and puts it in the prompt and the title.
C19_QuestionRequired ==
    CustomRequest =>
        IF Falsy(req.question)
        THEN /\ narr = <<>>
             /\ inserts = <<>>
             /\ pc = "done" => http = QuestionRequired
        ELSE pc = "done" => QuestionCarried

\* C19, amended: the same once getFinancialData has returned; when it threw,
\* either request ends with 500 'Failed to generate insights' and without a
\* generator call.
C19_QuestionRequiredOnceBuilt ==
    CustomRequest =>
        /\ Falsy(req.question) =>
              /\ narr = <<>>
              /\ inserts = <<>>
              /\ pc = "done" => http = IF FetchedAndBuilt THEN QuestionRequired ELSE Failed
        /\ ~Falsy(req.question) =>
              /\ (FetchedAndBuilt /\ pc # "built") => QuestionCarried
              /\ (pc = "done" /\ ~FetchedAndBuilt) =>
                    (http = Failed /\ narr = <<>> /\ inserts = <<>>)

C19_Witness ==
    /\ CustomRequest
    /\ req.question.s = "Should I raise prices?"
    /\ pc = "done"
    /\ http.shape = "insight"
    /\ http.insights[1].title = "Should I raise prices?"
    /\ Len(inserts) = 1

NarrativeFailed == \E i \in 1..Len(narr) : narr[i].state = "rejected"

\* what the handler answers on the other causes of failure: a missing
\* salary, a missing question, an unknown insight type, and a narrative call
\* that failed
OtherFailureResponses == {SalaryRequired, QuestionRequired, InvalidType, Failed}

\* a failed narrative call is answered by the catch of the handler
C20_NarrativeFailureAnswer == NarrativeFailed => (pc = "done" /\ http = Failed)

\* C20: a request whose fetch of a report or of the bank accounts failed ends
\* with an error response that differs from the response of every other cause
\* of failure (parameter validation, invalid insight type, narrative failure).
C20_FetchFailureDistinct ==
    (pc = "done" /\ SomeFetchRejected) =>
        /\ http.shape = "error"
        /\ http \notin OtherFailureResponses

----------------------------------------------------------------------------
(***************************************************************************)
(* Properties of the order of a request, checked under SpecReq.            *)
(***************************************************************************)

AllFetched == Len(fetches) > 0 /\ \A i \in 1..Len(fetches) : fetches[i].state = "fulfilled"
AllNarrated == Len(narr) > 0 /\ \A i \in 1..Len(narr) : narr[i].state = "fulfilled"

\* the step starts the generator calls of the request
StartsNarrative == narr = <<>> /\ narr' # <<>>
\* the step inserts an insight
Persists == inserts' # inserts
\* the step answers with one insight or several
Returns == http' # http /\ http'.shape \in {"insight", "insights"}

\* C21: a request goes through its stages in order: no narrative call starts
\* before every report fetch of the request has resolved, no insight is
\* inserted or returned before its narrative call has returned, and under
\* 'all' no insight is inserted before the three calls have returned.
C21_StagesInOrder ==
    [][/\ StartsNarrative => (AllFetched /\ pc = "built")
       /\ Persists =>
             /\ AllNarrated
             /\ Len(inserts') = Len(inserts) + 1
             /\ \E k \in 1..Len(narr) :
                   inserts'[Len(inserts')].row = InsightRow(narr[k].result)
             /\ req.insightType = "all" => Len(narr) = Len(Standard)
       /\ Returns =>
             /\ AllNarrated
             /\ \A k \in 1..Len(http'.insights) :
                   \E j \in 1..Len(narr) : http'.insights[k] = narr[j].result]_vars

C21_Witness ==
    /\ req.insightType = "all"
    /\ pc = "done"
    /\ http.shape = "insights"
    /\ Len(inserts) = Len(Standard)
    /\ completed = <<3, 1, 2>>

Unauthorized == ErrorResponse(401, "Unauthorized")
NoConnection == ErrorResponse(400, "No accounting software connected")
UnsupportedProvider == ErrorResponse(400, "Unsupported provider")

C27_InsertFailureNotSurfaced ==
    (req.insightType # "all" /\ Len(inserts) > 0) =>
        /\ Len(inserts) = 1
        /\ pc = "done"
        /\ http.status = 200
        /\ http = InsightResponse(narr[1].result)
        /\ http.insights[1].data = narr[1].data
        /\ inserts[1].row = InsightRow(http.insights[1])

C27_Witness ==
    /\ req.insightType = "hiring_impact"
    /\ Len(inserts) = 1
    /\ ~inserts[1].ok
    /\ http.status = 200
    /\ http.insights[1].data = narr[1].data

----------------------------------------------------------------------------
(***************************************************************************)
(* Properties of the prompts and the runways, checked under SpecGen.       *)
(***************************************************************************)

\* the lines of the prompt of the last generator call
Lines == PromptLines(prompt, metrics)

\* the line with this label
LineOf(label) == Lines[CHOOSE i \in 1..Len(Lines) : Lines[i].label = label]

\* the payload has a field that holds the quantity
InPayload(quantity) == \E f \in DOMAIN insight.data : insight.data[f] = quantity

\* C22: for every kind of insight, each quantity the generator writes into
\* the prompt (cash balance, revenue, expenses, net burn, runway, margin, the
\* salary figures) is the value of a field of the data of the result.
C22_PromptNumbersInPayload ==
    insight.status = "returned" =>
        \A i \in 1..Len(Lines) : Lines[i].as # "quoted" => InPayload(Lines[i].quantity)

\* what holds instead: so it is for every kind but hiring_impact, whose prompt
\* states the cash balance and the monthly revenue, which its payload lacks
C22_AllButHiringCashAndRevenue ==
    insight.status = "returned" =>
        \A i \in 1..Len(Lines) :
            Lines[i].as # "quoted" =>
                \/ InPayload(Lines[i].quantity)
                \/ /\ insight.type = "hiring_impact"
                   /\ Lines[i].label \in {"Cash balance", "Monthly revenue"}

\* a <= b; a comparison with NaN is false
NumLE(a, b) == ~a.nan /\ ~b.nan /\ a.n * b.d <= b.n * a.d

\* C28: for a cash balance >= 0 and an annual salary >= 0, the newRunway of a
\* hiring_impact result is at most its currentRunway.
C28_SalaryNeverLengthensRunway ==
    (/\ Returned("hiring_impact")
     /\ NumLE(Num(0), metrics.cashBalance)
     /\ insight.data.annualSalary.n >= 0)
        => NumLE(insight.data.newRunway, insight.data.currentRunway)

\* what holds instead: newRunway exceeds currentRunway only when the current
\* runway is the sentinel and the business burns cash with the salary
C28_LongerOnlyPastTheSentinel ==
    (/\ Returned("hiring_impact")
     /\ NumLE(Num(0), metrics.cashBalance)
     /\ insight.data.annualSalary.n >= 0)
        => \/ NumLE(insight.data.newRunway, insight.data.currentRunway)
           \/ /\ insight.data.currentRunway = Num(SentinelRunway)
              /\ BurnIsNumber(metrics)
              /\ BurnNum(metrics) <= 0
              /\ NewBurnNum(metrics, insight.data.annualSalary.n) > 0

ShownInfinite(label) == LineOf(label).as = "text"

\* C29: 999 stands for the business that does not burn cash, and for it
\* alone: the prompt of generateCashRunway and of generateHiringImpact shows a
\* runway as 'infinite (profitable)' exactly when its net burn is <= 0, and a
\* runway computed for a net burn > 0 is never 999.
C29_SentinelMarksNotBurning ==
    BurnIsNumber(metrics) =>
        /\ prompt.template = "cash_runway" =>
              /\ ShownInfinite("Calculated runway") <=> BurnNum(metrics) <= 0
              /\ BurnNum(metrics) > 0 =>
                    LineOf("Calculated runway").quantity # Num(SentinelRunway)
        /\ prompt.template = "hiring_impact" =>
              /\ ShownInfinite("Current runway") <=> BurnNum(metrics) <= 0
              /\ ShownInfinite("New runway") <=>
                    NewBurnNum(metrics, prompt.annualSalary) <= 0
              /\ BurnNum(metrics) > 0 =>
                    LineOf("Current runway").quantity # Num(SentinelRunway)
              /\ NewBurnNum(metrics, prompt.annualSalary) > 0 =>
                    LineOf("New runway").quantity # Num(SentinelRunway)

\* what holds instead: a runway is shown as infinite exactly when its net
\* burn is <= 0 or the cash balance is at least 999 and less than 1000 times
\* the net burn
C29_SentinelOrExactly999Months ==
    (BurnIsNumber(metrics) /\ prompt.template = "cash_runway") =>
        (ShownInfinite("Calculated runway") <=>
            \/ BurnNum(metrics) <= 0
            \/ IsFloorOfQuotient(Num(SentinelRunway), metrics.cashBalance,
                                 BurnNum(metrics), BurnDen(metrics)))

----------------------------------------------------------------------------
(***************************************************************************)
(* Properties of the OAuth callbacks, checked under SpecOAuth.             *)
(***************************************************************************)
Arrived == callback.pc # "idle"

\* the request lacked its code or its state, or its state was not the
\* value of the state cookie it came with
StateMismatch ==
    \/ Falsy(callback.code)
    \/ Falsy(callback.state)
    \/ callback.state # callback.cookieBefore

RefusedForState ==
    /\ callback.pc = "done"
    /\ callback.redirect = "/dashboard?error=invalid_oauth_state"

\* C23: a callback request without code or state, or whose state is not the
\* stored state cookie (no cookie included), is redirected with
\* invalid_oauth_state, and there is no token exchange and no write to
\* connections.
C23_StateMismatchRefused ==
    (Arrived /\ StateMismatch) =>
        /\ RefusedForState
        /\ callback.trace = <<>>
        /\ connectionRows = callback.rowsBefore

\* a request that came with a code and an issued state value, to a browser
\* whose cookie holds another one or none, was refused
C23_Witness ==
    /\ RefusedForState
    /\ ~Falsy(callback.code)
    /\ callback.state \in IssuedStates
    /\ callback.state # callback.cookieBefore
    /\ callback.provider = "xero"

\* C24: whatever callbacks were served, for whatever users, the connections
\* table holds at most one row for a user and a provider.
C24_OneConnectionPerUserAndProvider ==
    \A i, j \in 1..Len(connectionRows) :
        (/\ connectionRows[i].user_id = connectionRows[j].user_id
         /\ connectionRows[i].provider = connectionRows[j].provider) => i = j

\* a user who has a connection to the provider went through the flow again,
\* and the second upsert was answered with an error
C24_Witness ==
    /\ callback.pc = "done"
    /\ callback.redirect = "/dashboard?error=database_error"
    /\ UniqueViolation(callback.rowsBefore, callback.user, callback.provider)
    /\ connectionRows = callback.rowsBefore

\* the steps a callback has to have taken before it writes a row
StepsBeforeWrite(provider) ==
    IF provider = "xero"
    THEN <<"state", "user", "tokens", "tenant">>
    ELSE <<"state", "user", "tokens">>

EndedEarly ==
    /\ callback.pc \in {"verified", "authenticated", "exchanged"}
    /\ callback'.pc = "done"
    /\ callback'.redirect \in {"/login", ConnectionFailed(callback.provider),
                               "/dashboard?error=no_xero_organization"}

\* C26: a connection row is written only by a callback that passed the state
\* check, then found the user, then got the tokens and, for Xero, then a
\* tenant id; a callback that ends for a missing user, a failed exchange or a
\* missing tenant writes no row and leaves the state cookie.
C26_WriteOnlyAfterAllSteps ==
    [][/\ (connectionRows' # connectionRows) =>
              /\ callback.trace = StepsBeforeWrite(callback.provider)
              /\ callback.user # "none"
              /\ connectionRows = callback.rowsBefore
       /\ EndedEarly =>
              /\ connectionRows' = callback.rowsBefore
              /\ browser' = browser
              /\ browser.cookie[callback.provider] = callback.cookieBefore
              /\ callback.cookieBefore.given]_vars

\* a Xero callback, the second one served, went through every step and
\* stored its row
C26_Witness ==
    /\ callback.pc = "done"
    /\ callback.provider = "xero"
    /\ callback.trace = <<"state", "user", "tokens", "tenant", "upsert">>
    /\ Len(connectionRows) = Len(callback.rowsBefore) + 1
    /\ served = 2

\* C30: once a callback has stored its connection and its response has
\* deleted the state cookie, a further callback request of the browser with
\* the same code and state is redirected with invalid_oauth_state, with no
\* token exchange and no write to connections.
C30_StateIsSingleUse ==
    (Arrived /\ callback.replay) =>
        /\ RefusedForState
        /\ callback.trace = <<>>
        /\ connectionRows = callback.rowsBefore

\* the request of a callback that stored a connection came again and was
\* refused
C30_Witness ==
    /\ callback.replay
    /\ RefusedForState
    /\ Len(connectionRows) = 1
    /\ callback.state \in IssuedStates

====
